---------------------------- MODULE Spec2Model ----------------------------
(***************************************************************************)
(* JobFinder_v2: the scan controller (utils.py) and the job store          *)
(* (database.py) as state machines.                                        *)
(*                                                                         *)
(* Scan controller: request-handler threads (Callers) run start_scan,      *)
(* stop_scan and get_scan_status, each under _scan_lock; the scan thread   *)
(* (scan_worker) runs the scrape phase and then its finally block, which   *)
(* writes the stop flag WITHOUT taking _scan_lock.  Every statement that   *)
(* reads or writes shared state is one step, so that the steps of a        *)
(* caller holding the lock interleave with the steps of the scan thread.   *)
(***************************************************************************)
EXTENDS Integers, Sequences, FiniteSets, TLC

\* ------------------------------------------------------------- bounds ----
\* Number of scan threads that start_scan may create in one behaviour.
MaxScans == 2

\* Request-handler threads calling into utils.py concurrently.
Callers == {"c1", "c2"}

Tids == 1..MaxScans

\* Highest discovered_jobs.id / approved_jobs.id the sequences hand out.
MaxDiscoveredId == 2
MaxApprovedId == 2

\* Seconds the clock may advance.
MaxTime == 1

\* Longest list of descriptions handed to batch_analyse_jobs.
MaxBatch == 2

\* Longest generated job title, in characters.
MaxTitleLen == 3

\* Longest generated tail after "/jobs/view/", in characters.
MaxUrlTail == 3

\* Longest generated job description, in code points.
MaxTextLen == 1

\* Longest generated body of a provider response, in elements.
MaxBodyLen == 2

\* Evaluations of one job after which the pipeline is no longer followed.
MaxEvaluations == 2

\* External (LinkedIn) job ids the scraper may report.
JobIds == {101, 102}

\* (url, location, keyword) as the scraper reports them for a job.
StubInputs == {<<"u1", "l1", "k1">>, <<"u2", "l2", "k2">>}

\* (title, description) as the detail fetch returns them; either may be absent.
NULL == "NULL"
DetailInputs == {<<"t1", "d1">>, <<NULL, NULL>>}

\* Every combination of an unset or set title with an unset or set description.
AllDetailInputs == {NULL, "t1", "t2"} \X {NULL, "d1", "d2"}

\* approved_jobs.date_applied: Unset is SQL NULL, <<t>> the timestamp t.
Unset == <<>>

\* Reasons passed to approve_job.
Reasons == {"r1", "r2"}

\* ------------------------------------------------------------- state -----
VARIABLES
    scan_thread,        \* utils._scan_thread: 0 is None, else the Thread's id
    scan_stop_signal,   \* utils._scan_stop_signal[0]
    scan_lock,          \* utils._scan_lock: its holder, or NoOwner
    worker,             \* per Thread object: where scan_worker stands
    scan_control,       \* the owner's user_scan_control row, or NoRow
    pc,                 \* per caller: the statement it executes next
    ret,                \* per caller: what its last call returned
    target,             \* per caller: the thread its stop_scan found alive
    stopRaised,         \* history: a stop_scan raised the signal since the
                        \* current Thread object was created
    sawSignal,          \* history: a checkpoint saw the signal set since the
                        \* current Thread object was created
    liveAtReturn,       \* history, per caller: its stop_scan returned while the
                        \* thread it had found alive was still alive
    faults,             \* whether persistence / import steps may raise
    signalAtEntry       \* history, per caller: the in-memory stop signal as its
                        \* stop_scan found it after its liveness check

scanVars == <<scan_thread, scan_stop_signal, scan_lock, worker, scan_control,
              pc, ret, target, stopRaised, sawSignal, liveAtReturn, faults,
              signalAtEntry>>

VARIABLES
    discovered,         \* rows of discovered_jobs (owner ADMIN_USER_ID)
    approved,           \* rows of approved_jobs (owner ADMIN_USER_ID)
    next_did,           \* AUTOINCREMENT sequence of discovered_jobs.id
    next_aid,           \* AUTOINCREMENT sequence of approved_jobs.id
    now,                \* CURRENT_TIMESTAMP
    approve_sel,        \* approve_job between its SELECT and its INSERT
    sret,               \* the last store call and what it returned
    serr                \* history: whether that call hit a persistence failure:
                        \* "none", "caught" (returned its fallback value) or
                        \* "raised" (the exception reached the caller)

storeVars == <<discovered, approved, next_did, next_aid, now, approve_sel, sret, serr>>

VARIABLES
    job_descriptions,   \* batch_analyse_jobs' argument
    bpc,                \* "idle", or "loop" while the comprehension runs
    done,               \* the verdicts the comprehension has collected
    calls,              \* history: provider requests sent since the batch began
    bret,               \* what the last batch_analyse_jobs call came to
    last,               \* history: the last analyze_job call (config, outcome)
    excl                \* the last contains_exclusions call and its result

evalVars == <<job_descriptions, bpc, done, calls, bret, last, excl>>

VARIABLES
    xid,                \* the last extract_job_id_from_url call and its result
    sent,               \* the last prompt built and what each provider was sent
    gem                 \* the last Gemini response text and what it parsed to

textVars == <<xid, sent, gem>>

VARIABLES
    wpc,                \* wait_for_scan_completion: the statement it executes next
    wjoin,              \* the thread its join() waits for
    wret                \* what its last call returned, with (history) whether
                        \* the thread it joined had exited at that moment

waitVars == <<wpc, wjoin, wret>>

VARIABLES
    ppc,                \* the scan pipeline: the step it takes next
    todo,               \* the rows get_unanalyzed_jobs returned, not yet handled
    cur,                \* the row being evaluated, with its verdict
    evaluated,          \* history: per job id, how often the pipeline
                        \* completed an evaluation of that job
    verdicts            \* history: per job id, the last verdict it was given

pipeVars == <<ppc, todo, cur, evaluated, verdicts>>

VARIABLES
    apc,                \* per request handler of /api/job/<id>/apply: its next step
    acall,              \* its call: the row it names, whether that row was
                        \* un-applied when the request arrived (history), the
                        \* rows its UPDATE matched and the timestamp it wrote
    aret,               \* what its mark_job_as_applied returned
    db_writer           \* the connection that holds the database write lock

applyVars == <<apc, acall, aret, db_writer>>

restVars == <<textVars, waitVars, pipeVars, applyVars>>

vars == <<scanVars, storeVars, evalVars, restVars>>

NoOwner == "free"
NoRow == [present |-> FALSE]
NoRet == [op |-> "none"]

MsgAlreadyRunning == "Scan is already running"
MsgStarted == "Scan started successfully"
MsgStartFailed == "Failed to start scan"
MsgNotRunning == "No scan is currently running"
MsgStopSent == "Stop signal sent"
MsgStopFailed == "Failed to send stop signal"

\* ------------------------------------------------ persisted scan control --
\* database.should_stop_scan / get_scan_status['should_stop']
should_stop_scan == IF scan_control.present THEN scan_control.stop_scan_flag ELSE FALSE

\* database.is_scan_active / get_scan_status['is_active']
is_scan_active == IF scan_control.present THEN scan_control.scan_active ELSE FALSE

\* database.set_stop_scan_flag: INSERT OR REPLACE names only stop_scan_flag,
\* so the replaced row takes the column default for scan_active.
set_stop_scan_flag(stop) ==
    [present |-> TRUE, stop_scan_flag |-> stop, scan_active |-> FALSE]

\* database.set_scan_active: INSERT OR REPLACE names only scan_active, so the
\* replaced row takes the column default for stop_scan_flag.
set_scan_active(active) ==
    [present |-> TRUE, stop_scan_flag |-> FALSE, scan_active |-> active]

\* Outcomes of a step that can raise: TRUE = completes, FALSE = raises.
Outcomes == IF faults THEN {TRUE, FALSE} ELSE {TRUE}

\* ------------------------------------------------------ thread liveness ---
\* Thread.is_alive(): true from Thread.start() until the thread has ended;
\* the whole of scan_worker, its finally block included, runs while alive.
AliveStates == {"work", "checkpoint", "hung", "fin_signal", "fin_db", "exiting"}

is_alive(t) == worker[t] \in AliveStates

\* `_scan_thread and _scan_thread.is_alive()` / `_scan_thread is not None and ...`
ScanIsLive == scan_thread # 0 /\ is_alive(scan_thread)

LiveTasks == {t \in Tids : is_alive(t)}

\* Thread ids not yet handed out.
Unborn == {t \in Tids : worker[t] = "unborn"}

\* ------------------------------------------------------------ the lock ----
\* A start/stop that does not wait for the lock (no mutual exclusion).
CanAcquireAlways(c) == TRUE

\* `with _scan_lock:` blocks until the lock is free.
CanAcquire(c) == scan_lock = NoOwner

Acquire(c, next) ==
    /\ CanAcquire(c)
    /\ scan_lock' = c
    /\ pc' = [pc EXCEPT ![c] = next]

\* Leaving the with-block by `return`: release and hand the result back.
Return(c, result) ==
    /\ scan_lock' = NoOwner
    /\ pc' = [pc EXCEPT ![c] = "idle"]
    /\ ret' = [ret EXCEPT ![c] = result]

\* A new call by c: what is remembered of c's previous call is dropped.
Forget(c) ==
    /\ ret' = [ret EXCEPT ![c] = NoRet]
    /\ target' = [target EXCEPT ![c] = 0]
    /\ liveAtReturn' = [liveAtReturn EXCEPT ![c] = FALSE]
    /\ signalAtEntry' = [signalAtEntry EXCEPT ![c] = FALSE]

\* ------------------------------------------------------- get_scan_status --
StatusCall(c) ==
    /\ pc[c] = "idle"
    /\ pc' = [pc EXCEPT ![c] = "status_lock"]
    /\ Forget(c)
    /\ UNCHANGED <<scan_thread, scan_stop_signal, scan_lock, worker, scan_control,
                   stopRaised, sawSignal, faults, storeVars, evalVars, restVars>>

StatusLock(c) ==
    /\ pc[c] = "status_lock"
    /\ Acquire(c, "status_alive")
    /\ UNCHANGED <<scan_thread, scan_stop_signal, worker, scan_control,
                   ret, target, stopRaised, sawSignal, liveAtReturn, faults, signalAtEntry, storeVars, evalVars, restVars>>

\* 'is_running': _scan_thread is not None and _scan_thread.is_alive()
StatusAlive(c) ==
    /\ pc[c] = "status_alive"
    /\ pc' = [pc EXCEPT ![c] = "status_flag"]
    /\ ret' = [ret EXCEPT ![c] = [op |-> "status_partial", is_running |-> ScanIsLive]]
    /\ UNCHANGED <<scan_thread, scan_stop_signal, scan_lock, worker, scan_control,
                   target, stopRaised, sawSignal, liveAtReturn, faults, signalAtEntry, storeVars, evalVars, restVars>>

\* 'stop_requested': _scan_stop_signal[0]; then return the dict
StatusFlag(c) ==
    /\ pc[c] = "status_flag"
    /\ Return(c, [op |-> "status", is_running |-> ret[c].is_running,
                  stop_requested |-> scan_stop_signal])
    /\ UNCHANGED <<scan_thread, scan_stop_signal, worker, scan_control,
                   target, stopRaised, sawSignal, liveAtReturn, faults, signalAtEntry, storeVars, evalVars, restVars>>

\* ------------------------------------------------------------ start_scan --
StartCall(c) ==
    /\ pc[c] = "idle"
    /\ Unborn # {}
    /\ pc' = [pc EXCEPT ![c] = "start_lock"]
    /\ Forget(c)
    /\ UNCHANGED <<scan_thread, scan_stop_signal, scan_lock, worker, scan_control,
                   stopRaised, sawSignal, faults, storeVars, evalVars, restVars>>

StartLock(c) ==
    /\ pc[c] = "start_lock"
    /\ Acquire(c, "start_check")
    /\ UNCHANGED <<scan_thread, scan_stop_signal, worker, scan_control,
                   ret, target, stopRaised, sawSignal, liveAtReturn, faults, signalAtEntry, storeVars, evalVars, restVars>>

\* A slip that clears the stop signal before looking at the running scan.
StartCheckClearsFirst(c) ==
    /\ pc[c] = "start_check"
    /\ scan_stop_signal' = FALSE
    /\ IF ScanIsLive
       THEN Return(c, [op |-> "start", ok |-> FALSE, msg |-> MsgAlreadyRunning])
       ELSE /\ pc' = [pc EXCEPT ![c] = "start_clear"]
            /\ UNCHANGED <<scan_lock, ret>>
    /\ UNCHANGED <<scan_thread, worker, scan_control,
                   target, stopRaised, sawSignal, liveAtReturn, faults, signalAtEntry, storeVars, evalVars, restVars>>

\* if _scan_thread and _scan_thread.is_alive(): return False, "Scan is already running"
StartCheck(c) ==
    /\ pc[c] = "start_check"
    /\ IF ScanIsLive
       THEN Return(c, [op |-> "start", ok |-> FALSE, msg |-> MsgAlreadyRunning])
       ELSE /\ pc' = [pc EXCEPT ![c] = "start_clear"]
            /\ UNCHANGED <<scan_lock, ret>>
    /\ UNCHANGED <<scan_thread, scan_stop_signal, worker, scan_control,
                   target, stopRaised, sawSignal, liveAtReturn, faults, signalAtEntry, storeVars, evalVars, restVars>>

\* A slip that drops the in-memory reset of the stop signal.
StartClearSkipped(c) ==
    /\ pc[c] = "start_clear"
    /\ pc' = [pc EXCEPT ![c] = "start_init"]
    /\ UNCHANGED <<scan_thread, scan_stop_signal, scan_lock, worker, scan_control,
                   ret, target, stopRaised, sawSignal, liveAtReturn, faults, signalAtEntry, storeVars, evalVars, restVars>>

\* _scan_stop_signal[0] = False
StartClear(c) ==
    /\ pc[c] = "start_clear"
    /\ scan_stop_signal' = FALSE
    /\ pc' = [pc EXCEPT ![c] = "start_init"]
    /\ UNCHANGED <<scan_thread, scan_lock, worker, scan_control,
                   ret, target, stopRaised, sawSignal, liveAtReturn, faults, signalAtEntry, storeVars, evalVars, restVars>>

\* from scrape import scrape_phase; import database; database.init_db()
\* (none changes the scan-control row; each may raise)
StartInit(c) ==
    /\ pc[c] = "start_init"
    /\ \E ok \in Outcomes :
         IF ok
         THEN /\ pc' = [pc EXCEPT ![c] = "start_setflag"]
              /\ UNCHANGED <<scan_lock, ret>>
         ELSE Return(c, [op |-> "start", ok |-> FALSE, msg |-> MsgStartFailed])
    /\ UNCHANGED <<scan_thread, scan_stop_signal, worker, scan_control,
                   target, stopRaised, sawSignal, liveAtReturn, faults, signalAtEntry, storeVars, evalVars, restVars>>

\* A slip that starts the scan thread before the persisted flag is cleared and
\* leaves it running when that write fails.
StartSetFlagAfterSpawn(c) ==
    /\ pc[c] = "start_setflag"
    /\ \E ok \in Outcomes :
         IF ok
         THEN /\ scan_control' = set_stop_scan_flag(FALSE)
              /\ pc' = [pc EXCEPT ![c] = "start_create"]
              /\ UNCHANGED <<scan_lock, ret, scan_thread, worker, stopRaised, sawSignal>>
         ELSE /\ Return(c, [op |-> "start", ok |-> FALSE, msg |-> MsgStartFailed])
              /\ \E t \in Unborn :
                   /\ \A u \in Unborn : t <= u
                   /\ scan_thread' = t
                   /\ worker' = [worker EXCEPT ![t] = "work"]
              /\ stopRaised' = FALSE
              /\ sawSignal' = FALSE
              /\ UNCHANGED scan_control
    /\ UNCHANGED <<scan_stop_signal, target, liveAtReturn, faults, signalAtEntry,
                   storeVars, evalVars, restVars>>

\* database.set_stop_scan_flag(False)
StartSetFlag(c) ==
    /\ pc[c] = "start_setflag"
    /\ \E ok \in Outcomes :
         IF ok
         THEN /\ scan_control' = set_stop_scan_flag(FALSE)
              /\ pc' = [pc EXCEPT ![c] = "start_create"]
              /\ UNCHANGED <<scan_lock, ret>>
         ELSE /\ Return(c, [op |-> "start", ok |-> FALSE, msg |-> MsgStartFailed])
              /\ UNCHANGED scan_control
    /\ UNCHANGED <<scan_thread, scan_stop_signal, worker,
                   target, stopRaised, sawSignal, liveAtReturn, faults, signalAtEntry, storeVars, evalVars, restVars>>

\* _scan_thread = threading.Thread(target=scan_worker, daemon=True)
StartCreate(c) ==
    /\ pc[c] = "start_create"
    /\ \E t \in Unborn :
         /\ \A u \in Unborn : t <= u
         /\ scan_thread' = t
         /\ worker' = [worker EXCEPT ![t] = "created"]
    /\ stopRaised' = FALSE
    /\ sawSignal' = FALSE
    /\ pc' = [pc EXCEPT ![c] = "start_spawn"]
    /\ UNCHANGED <<scan_stop_signal, scan_lock, scan_control,
                   ret, target, liveAtReturn, faults, signalAtEntry, storeVars, evalVars, restVars>>

\* _scan_thread.start(); return True, "Scan started successfully"
StartSpawn(c) ==
    /\ pc[c] = "start_spawn"
    /\ worker' = [worker EXCEPT ![scan_thread] = "work"]
    /\ Return(c, [op |-> "start", ok |-> TRUE, msg |-> MsgStarted])
    /\ UNCHANGED <<scan_thread, scan_stop_signal, scan_control,
                   target, stopRaised, sawSignal, liveAtReturn, faults, signalAtEntry, storeVars, evalVars, restVars>>

\* ------------------------------------------------------------- stop_scan --
StopCall(c) ==
    /\ pc[c] = "idle"
    /\ pc' = [pc EXCEPT ![c] = "stop_lock"]
    /\ Forget(c)
    /\ UNCHANGED <<scan_thread, scan_stop_signal, scan_lock, worker, scan_control,
                   stopRaised, sawSignal, faults, storeVars, evalVars, restVars>>

StopLock(c) ==
    /\ pc[c] = "stop_lock"
    /\ Acquire(c, "stop_check")
    /\ UNCHANGED <<scan_thread, scan_stop_signal, worker, scan_control,
                   ret, target, stopRaised, sawSignal, liveAtReturn, faults, signalAtEntry, storeVars, evalVars, restVars>>

\* A slip that raises the stop signal before looking for a running scan.
StopCheckSetsFirst(c) ==
    /\ pc[c] = "stop_check"
    /\ scan_stop_signal' = TRUE
    /\ signalAtEntry' = [signalAtEntry EXCEPT ![c] = scan_stop_signal]
    /\ IF ~ScanIsLive
       THEN /\ Return(c, [op |-> "stop", ok |-> FALSE, msg |-> MsgNotRunning])
            /\ UNCHANGED target
       ELSE /\ pc' = [pc EXCEPT ![c] = "stop_signal"]
            /\ target' = [target EXCEPT ![c] = scan_thread]
            /\ UNCHANGED <<scan_lock, ret>>
    /\ UNCHANGED <<scan_thread, worker, scan_control,
                   stopRaised, sawSignal, liveAtReturn, faults, storeVars, evalVars, restVars>>

\* if not _scan_thread or not _scan_thread.is_alive(): return False, "No scan ..."
StopCheck(c) ==
    /\ pc[c] = "stop_check"
    /\ signalAtEntry' = [signalAtEntry EXCEPT ![c] = scan_stop_signal]
    /\ IF ~ScanIsLive
       THEN /\ Return(c, [op |-> "stop", ok |-> FALSE, msg |-> MsgNotRunning])
            /\ UNCHANGED target
       ELSE /\ pc' = [pc EXCEPT ![c] = "stop_signal"]
            /\ target' = [target EXCEPT ![c] = scan_thread]
            /\ UNCHANGED <<scan_lock, ret>>
    /\ UNCHANGED <<scan_thread, scan_stop_signal, worker, scan_control,
                   stopRaised, sawSignal, liveAtReturn, faults, storeVars, evalVars, restVars>>

\* A slip that forgets to raise the in-memory signal the scan thread polls.
StopSignalSkipped(c) ==
    /\ pc[c] = "stop_signal"
    /\ pc' = [pc EXCEPT ![c] = "stop_setflag"]
    /\ UNCHANGED <<scan_thread, scan_stop_signal, scan_lock, worker, scan_control,
                   ret, target, stopRaised, sawSignal, liveAtReturn, faults, signalAtEntry, storeVars, evalVars, restVars>>

\* _scan_stop_signal[0] = True
StopSignal(c) ==
    /\ pc[c] = "stop_signal"
    /\ scan_stop_signal' = TRUE
    /\ stopRaised' = TRUE
    /\ pc' = [pc EXCEPT ![c] = "stop_setflag"]
    /\ UNCHANGED <<scan_thread, scan_lock, worker, scan_control,
                   ret, target, sawSignal, liveAtReturn, faults, signalAtEntry, storeVars, evalVars, restVars>>

\* A stop that joins the scan thread before it returns.
StopSetFlagJoins(c) ==
    /\ pc[c] = "stop_setflag"
    /\ ~is_alive(target[c])
    /\ scan_control' = set_stop_scan_flag(TRUE)
    /\ Return(c, [op |-> "stop", ok |-> TRUE, msg |-> MsgStopSent])
    /\ liveAtReturn' = [liveAtReturn EXCEPT ![c] = is_alive(target[c])]
    /\ UNCHANGED <<scan_thread, scan_stop_signal, worker,
                   target, stopRaised, sawSignal, faults, signalAtEntry, storeVars, evalVars, restVars>>

\* database.set_stop_scan_flag(True); return True, "Stop signal sent"
\* except Exception: return False, "Failed to send stop signal: ..."
StopSetFlag(c) ==
    /\ pc[c] = "stop_setflag"
    /\ \E ok \in Outcomes :
         IF ok
         THEN /\ scan_control' = set_stop_scan_flag(TRUE)
              /\ Return(c, [op |-> "stop", ok |-> TRUE, msg |-> MsgStopSent])
         ELSE /\ Return(c, [op |-> "stop", ok |-> FALSE, msg |-> MsgStopFailed])
              /\ UNCHANGED scan_control
    /\ liveAtReturn' = [liveAtReturn EXCEPT ![c] = is_alive(target[c])]
    /\ UNCHANGED <<scan_thread, scan_stop_signal, worker,
                   target, stopRaised, sawSignal, faults, signalAtEntry, storeVars, evalVars, restVars>>

\* ----------------------------------------------------------- scan_worker --
\* scrape_phase(_scan_stop_signal): one unit of work (a keyword/location
\* combination, a job) completes and the task reaches its checkpoint.
Work(t) ==
    /\ worker[t] = "work"
    /\ worker' = [worker EXCEPT ![t] = "checkpoint"]
    /\ UNCHANGED <<scan_thread, scan_stop_signal, scan_lock, scan_control,
                   pc, ret, target, stopRaised, sawSignal, liveAtReturn, faults, signalAtEntry, storeVars, evalVars, restVars>>

\* The cooperative-cancellation check between units of work.
Checkpoint(t) ==
    /\ worker[t] = "checkpoint"
    /\ IF scan_stop_signal
       THEN /\ worker' = [worker EXCEPT ![t] = "fin_signal"]
            /\ sawSignal' = TRUE
       ELSE /\ worker' = [worker EXCEPT ![t] = "work"]
            /\ UNCHANGED sawSignal
    /\ UNCHANGED <<scan_thread, scan_stop_signal, scan_lock, scan_control,
                   pc, ret, target, stopRaised, liveAtReturn, faults, signalAtEntry, storeVars, evalVars, restVars>>

\* A unit of work that never comes back (a hung network call).
Hang(t) ==
    /\ worker[t] = "work"
    /\ worker' = [worker EXCEPT ![t] = "hung"]
    /\ UNCHANGED <<scan_thread, scan_stop_signal, scan_lock, scan_control,
                   pc, ret, target, stopRaised, sawSignal, liveAtReturn, faults, signalAtEntry, storeVars, evalVars, restVars>>

\* scrape_phase returns, or raises and `except Exception` logs it: either
\* way control reaches the finally block.
ScrapeEnds(t) ==
    /\ worker[t] = "work"
    /\ worker' = [worker EXCEPT ![t] = "fin_signal"]
    /\ UNCHANGED <<scan_thread, scan_stop_signal, scan_lock, scan_control,
                   pc, ret, target, stopRaised, sawSignal, liveAtReturn, faults, signalAtEntry, storeVars, evalVars, restVars>>

\* finally: _scan_stop_signal[0] = False        (no lock taken)
FinallySignal(t) ==
    /\ worker[t] = "fin_signal"
    /\ scan_stop_signal' = FALSE
    /\ worker' = [worker EXCEPT ![t] = "fin_db"]
    /\ UNCHANGED <<scan_thread, scan_lock, scan_control,
                   pc, ret, target, stopRaised, sawSignal, liveAtReturn, faults, signalAtEntry, storeVars, evalVars, restVars>>

\* finally: database.set_stop_scan_flag(False)  (no lock taken; may raise,
\* and then the exception ends the thread)
FinallyDb(t) ==
    /\ worker[t] = "fin_db"
    /\ \E ok \in Outcomes :
         scan_control' = IF ok THEN set_stop_scan_flag(FALSE) ELSE scan_control
    /\ worker' = [worker EXCEPT ![t] = "exiting"]
    /\ UNCHANGED <<scan_thread, scan_stop_signal, scan_lock,
                   pc, ret, target, stopRaised, sawSignal, liveAtReturn, faults, signalAtEntry, storeVars, evalVars, restVars>>

\* scan_worker has returned; the thread ends and is_alive() turns False.
ThreadExit(t) ==
    /\ worker[t] = "exiting"
    /\ worker' = [worker EXCEPT ![t] = "dead"]
    /\ UNCHANGED <<scan_thread, scan_stop_signal, scan_lock, scan_control,
                   pc, ret, target, stopRaised, sawSignal, liveAtReturn, faults, signalAtEntry, storeVars, evalVars, restVars>>

\* ------------------------------------------- direct scan-control writes --
\* database.set_stop_scan_flag(stop) called on its own; an exception
\* propagates and the row stays as it was.
set_stop_scan_flag_call(stop) ==
    /\ \E ok \in Outcomes :
         scan_control' = IF ok THEN set_stop_scan_flag(stop) ELSE scan_control
    /\ UNCHANGED <<scan_thread, scan_stop_signal, scan_lock, worker, pc, ret, target,
                   stopRaised, sawSignal, liveAtReturn, faults, signalAtEntry, storeVars, evalVars, restVars>>

\* database.set_scan_active(active); an exception propagates and the row
\* stays as it was.
set_scan_active_call(active) ==
    /\ \E ok \in Outcomes :
         scan_control' = IF ok THEN set_scan_active(active) ELSE scan_control
    /\ UNCHANGED <<scan_thread, scan_stop_signal, scan_lock, worker, pc, ret, target,
                   stopRaised, sawSignal, liveAtReturn, faults, signalAtEntry, storeVars, evalVars, restVars>>

\* ---------------------------------------------- wait_for_scan_completion --
\* Called from a thread of its own; it takes no lock.
WaitCall ==
    /\ wpc = "idle"
    /\ wpc' = "wait_check"
    /\ wjoin' = 0
    /\ wret' = NoRet
    /\ UNCHANGED <<scanVars, storeVars, evalVars, textVars, pipeVars, applyVars>>

\* if _scan_thread and _scan_thread.is_alive(): ... else: return True
WaitCheck ==
    /\ wpc = "wait_check"
    /\ IF ScanIsLive
       THEN /\ wpc' = "wait_join"
            /\ UNCHANGED wret
       ELSE /\ wpc' = "idle"
            /\ wret' = [op |-> "wait", result |-> TRUE, joined |-> 0, exited |-> TRUE]
    /\ UNCHANGED <<wjoin, scanVars, storeVars, evalVars, textVars, pipeVars, applyVars>>

\* _scan_thread.join(timeout=timeout) begins: the global is read again, and
\* joining a Thread that has not been started raises RuntimeError.
WaitJoin ==
    /\ wpc = "wait_join"
    /\ wjoin' = scan_thread
    /\ IF worker[scan_thread] = "created"
       THEN /\ wpc' = "idle"
            /\ wret' = [op |-> "wait_raised", error |-> "RuntimeError",
                        joined |-> scan_thread, exited |-> FALSE]
       ELSE /\ wpc' = "wait_joining"
            /\ UNCHANGED wret
    /\ UNCHANGED <<scanVars, storeVars, evalVars, textVars, pipeVars, applyVars>>

\* join returns: the thread has ended, or the timeout has run out.
WaitJoined ==
    /\ wpc = "wait_joining"
    /\ wpc' = "wait_return"
    /\ UNCHANGED <<wjoin, wret, scanVars, storeVars, evalVars, textVars, pipeVars, applyVars>>

\* return not _scan_thread.is_alive(): the global is read once more.
WaitReturn ==
    /\ wpc = "wait_return"
    /\ wpc' = "idle"
    /\ wret' = [op |-> "wait", result |-> ~is_alive(scan_thread),
                joined |-> wjoin, exited |-> ~is_alive(wjoin)]
    /\ UNCHANGED <<wjoin, scanVars, storeVars, evalVars, textVars, pipeVars, applyVars>>

\* ================================================================ store ===
\* Each function of database.py opens its own connection (get_conn) and
\* commits on leaving the with-block.  A function that issues one statement,
\* or only data-changing statements, is one step: its transaction holds the
\* write lock from the first data-changing statement to the commit, and no
\* other connection sees its uncommitted rows.  approve_job reads (SELECT,
\* outside any transaction) and then writes, and another connection may
\* commit between the two.

\* The committed content of the database file.
Db == [discovered |-> discovered, approved |-> approved,
       next_did |-> next_did, next_aid |-> next_aid]

\* The database file becomes db.
Install(db) ==
    /\ discovered' = db.discovered
    /\ approved' = db.approved
    /\ next_did' = db.next_did
    /\ next_aid' = db.next_aid

\* Where a store call may raise: nowhere, in conn.execute, or in conn.commit.
FailPoints == IF faults THEN {"none", "execute", "commit"} ELSE {"none"}

\* clear_all_discovered_jobs has a second conn.execute that may raise.
ClearFailPoints == IF faults THEN {"none", "execute", "execute2", "commit"} ELSE {"none"}

\* A connection that keeps what was written when the with-block raises.
get_conn_keeps_partial(before, work, raised) == work

\* get_conn: the with-block ran on `work`, a private copy of `before`;
\* conn.commit() on success, conn.rollback() and re-raise on an exception.
get_conn(before, work, raised) == IF raised THEN before ELSE work

\* SELECT ... FROM discovered_jobs WHERE user_id = ? AND job_id = ?
DiscoveredByJob(j) == {d \in discovered : d.job_id = j}

\* Rows of approved_jobs that reference the discovered row with primary key did.
ApprovedFor(did) == {a \in approved : a.discovered_job_id = did}

\* An INSERT that does not look at UNIQUE(user_id, job_id).
insert_stub_no_unique(j, stub) ==
    /\ next_did <= MaxDiscoveredId
    /\ discovered' = discovered \cup
           {[id |-> next_did, job_id |-> j, url |-> stub[1], location |-> stub[2],
             keyword |-> stub[3], title |-> NULL, description |-> NULL,
             analyzed |-> FALSE, date_discovered |-> now]}
    /\ next_did' = next_did + 1
    /\ sret' = [op |-> "insert_stub", result |-> TRUE]
    /\ serr' = "none"
    /\ UNCHANGED <<approved, next_aid, now, approve_sel, scanVars, evalVars, restVars>>

\* An INSERT OR REPLACE: the row of a known job is deleted and a fresh stub
\* takes its place.
insert_stub_replaces(j, stub) ==
    /\ next_did <= MaxDiscoveredId
    /\ discovered' = (discovered \ DiscoveredByJob(j)) \cup
           {[id |-> next_did, job_id |-> j, url |-> stub[1], location |-> stub[2],
             keyword |-> stub[3], title |-> NULL, description |-> NULL,
             analyzed |-> FALSE, date_discovered |-> now]}
    /\ next_did' = next_did + 1
    /\ sret' = [op |-> "insert_stub", result |-> TRUE]
    /\ serr' = "none"
    /\ UNCHANGED <<approved, next_aid, now, approve_sel, scanVars, evalVars, restVars>>

\* insert_stub: INSERT OR IGNORE INTO discovered_jobs (user_id, job_id, url,
\* location, keyword); return cursor.rowcount > 0; on an exception print it
\* and return False.
insert_stub(j, stub) ==
    /\ DiscoveredByJob(j) # {} \/ next_did <= MaxDiscoveredId
    /\ \E f \in FailPoints :
         LET fresh == DiscoveredByJob(j) = {}
             work == IF f = "execute" \/ ~fresh THEN Db
                     ELSE [Db EXCEPT
                             !.discovered = @ \cup
                                {[id |-> next_did, job_id |-> j, url |-> stub[1],
                                  location |-> stub[2], keyword |-> stub[3],
                                  title |-> NULL, description |-> NULL,
                                  analyzed |-> FALSE, date_discovered |-> now]},
                             !.next_did = @ + 1]
         IN  /\ Install(get_conn(Db, work, f # "none"))
             /\ sret' = [op |-> "insert_stub",
                         result |-> IF f = "none" THEN fresh ELSE FALSE]
             /\ serr' = IF f = "none" THEN "none" ELSE "caught"
    /\ UNCHANGED <<now, approve_sel, scanVars, evalVars, restVars>>

\* An UPDATE that also puts the analyzed column back to its default.
update_details_resets_analyzed(j, det) ==
    /\ discovered' = {IF d.job_id = j
                      THEN [d EXCEPT !.title = det[1], !.description = det[2],
                                     !.analyzed = FALSE]
                      ELSE d : d \in discovered}
    /\ sret' = [op |-> "update_details", result |-> NULL]
    /\ serr' = "none"
    /\ UNCHANGED <<approved, next_did, next_aid, now, approve_sel, scanVars, evalVars, restVars>>

\* update_details: UPDATE discovered_jobs SET title = ?, description = ?
\* WHERE user_id = ? AND job_id = ?; an exception propagates.
update_details(j, det) ==
    /\ \E f \in FailPoints :
         LET work == IF f = "execute" THEN Db
                     ELSE [Db EXCEPT !.discovered =
                             {IF d.job_id = j
                              THEN [d EXCEPT !.title = det[1], !.description = det[2]]
                              ELSE d : d \in discovered}]
         IN  /\ Install(get_conn(Db, work, f # "none"))
             /\ serr' = IF f = "none" THEN "none" ELSE "raised"
    /\ sret' = [op |-> "update_details", result |-> NULL]
    /\ UNCHANGED <<now, approve_sel, scanVars, evalVars, restVars>>

\* A check that takes a missing row for a complete one.
row_missing_details_needs_row(j) ==
    \E d \in DiscoveredByJob(j) : d.title = NULL

\* row_missing_details: SELECT title ... fetchone();
\* return row is None or row['title'] is None
row_missing_details(j) ==
    \/ DiscoveredByJob(j) = {}
    \/ \E d \in DiscoveredByJob(j) : d.title = NULL

\* One call of row_missing_details; an exception propagates.
row_missing_details_call(j) ==
    /\ \E f \in FailPoints :
         /\ sret' = [op |-> "row_missing_details", job_id |-> j,
                     result |-> IF f = "none" THEN row_missing_details(j) ELSE NULL]
         /\ serr' = IF f = "none" THEN "none" ELSE "raised"
    /\ UNCHANGED <<discovered, approved, next_did, next_aid, now, approve_sel,
                   scanVars, evalVars, restVars>>

\* mark_job_as_analyzed: UPDATE discovered_jobs SET analyzed = TRUE WHERE ...;
\* an exception propagates.
mark_job_as_analyzed(j) ==
    /\ \E f \in FailPoints :
         LET work == IF f = "execute" THEN Db
                     ELSE [Db EXCEPT !.discovered =
                             {IF d.job_id = j THEN [d EXCEPT !.analyzed = TRUE] ELSE d :
                              d \in discovered}]
         IN  /\ Install(get_conn(Db, work, f # "none"))
             /\ serr' = IF f = "none" THEN "none" ELSE "raised"
    /\ sret' = [op |-> "mark_job_as_analyzed", result |-> NULL]
    /\ UNCHANGED <<now, approve_sel, scanVars, evalVars, restVars>>

\* approve_job, first statement: SELECT id FROM discovered_jobs WHERE
\* user_id = ? AND job_id = ?; `if not discovered_job: return False`; on an
\* exception print it and return False.
approve_job_select(j, reason) ==
    /\ approve_sel = <<>>
    /\ next_aid <= MaxApprovedId
    /\ \E f \in FailPoints \ {"commit"} :
         IF f = "execute"
         THEN /\ sret' = [op |-> "approve_job", result |-> FALSE]
              /\ serr' = "caught"
              /\ UNCHANGED approve_sel
         ELSE IF DiscoveredByJob(j) = {}
              THEN /\ sret' = [op |-> "approve_job", result |-> FALSE]
                   /\ serr' = "none"
                   /\ UNCHANGED approve_sel
              ELSE /\ \E d \in DiscoveredByJob(j) :
                        approve_sel' = <<[discovered_job_id |-> d.id, reason |-> reason]>>
                   /\ UNCHANGED <<sret, serr>>
    /\ UNCHANGED <<discovered, approved, next_did, next_aid, now, scanVars, evalVars, restVars>>

\* An INSERT that does not look at UNIQUE(user_id, discovered_job_id).
approve_job_insert_no_unique ==
    /\ approve_sel # <<>>
    /\ approved' = approved \cup
           {[id |-> next_aid, discovered_job_id |-> approve_sel[1].discovered_job_id,
             reason |-> approve_sel[1].reason, date_approved |-> now,
             date_applied |-> Unset, is_archived |-> FALSE]}
    /\ next_aid' = next_aid + 1
    /\ approve_sel' = <<>>
    /\ sret' = [op |-> "approve_job", result |-> TRUE]
    /\ serr' = "none"
    /\ UNCHANGED <<discovered, next_did, now, scanVars, evalVars, restVars>>

\* An INSERT OR REPLACE: the row of an already approved job is deleted and a
\* new one takes its place.
approve_job_insert_replaces ==
    /\ approve_sel # <<>>
    /\ LET did == approve_sel[1].discovered_job_id
       IN  approved' = (approved \ ApprovedFor(did)) \cup
               {[id |-> next_aid, discovered_job_id |-> did,
                 reason |-> approve_sel[1].reason, date_approved |-> now,
                 date_applied |-> Unset, is_archived |-> FALSE]}
    /\ next_aid' = next_aid + 1
    /\ approve_sel' = <<>>
    /\ sret' = [op |-> "approve_job", result |-> TRUE]
    /\ serr' = "none"
    /\ UNCHANGED <<discovered, next_did, now, scanVars, evalVars, restVars>>

\* approve_job, second statement: INSERT OR IGNORE INTO approved_jobs
\* (user_id, discovered_job_id, reason); return True; on an exception print it
\* and return False.
approve_job_insert ==
    /\ approve_sel # <<>>
    /\ \E f \in FailPoints :
         LET did == approve_sel[1].discovered_job_id
             work == IF f = "execute" \/ ApprovedFor(did) # {} THEN Db
                     ELSE [Db EXCEPT
                             !.approved = @ \cup
                                {[id |-> next_aid, discovered_job_id |-> did,
                                  reason |-> approve_sel[1].reason,
                                  date_approved |-> now,
                                  date_applied |-> Unset, is_archived |-> FALSE]},
                             !.next_aid = @ + 1]
         IN  /\ Install(get_conn(Db, work, f # "none"))
             /\ sret' = [op |-> "approve_job", result |-> f = "none"]
             /\ serr' = IF f = "none" THEN "none" ELSE "caught"
    /\ approve_sel' = <<>>
    /\ UNCHANGED <<now, scanVars, evalVars, restVars>>

\* An UPDATE without `AND date_applied IS NULL`.
mark_job_as_applied_overwrites(pk) ==
    /\ approved' = {IF a.id = pk THEN [a EXCEPT !.date_applied = <<now>>] ELSE a :
                    a \in approved}
    /\ sret' = [op |-> "mark_job_as_applied", result |-> \E a \in approved : a.id = pk]
    /\ serr' = "none"
    /\ UNCHANGED <<discovered, next_did, next_aid, now, approve_sel, scanVars, evalVars, restVars>>

\* mark_job_as_applied: UPDATE approved_jobs SET date_applied =
\* CURRENT_TIMESTAMP WHERE user_id = ? AND id = ? AND date_applied IS NULL;
\* return cursor.rowcount > 0; on an exception print it and return False.
mark_job_as_applied(pk) ==
    /\ \E f \in FailPoints :
         LET hit == {a \in approved : a.id = pk /\ a.date_applied = Unset}
             work == IF f = "execute" THEN Db
                     ELSE [Db EXCEPT !.approved =
                             {IF a \in hit THEN [a EXCEPT !.date_applied = <<now>>]
                              ELSE a : a \in approved}]
         IN  /\ Install(get_conn(Db, work, f # "none"))
             /\ sret' = [op |-> "mark_job_as_applied",
                         result |-> IF f = "none" THEN hit # {} ELSE FALSE]
             /\ serr' = IF f = "none" THEN "none" ELSE "caught"
    /\ UNCHANGED <<now, approve_sel, scanVars, evalVars, restVars>>

\* delete_approved_job: DELETE FROM approved_jobs WHERE user_id = ? AND id = ?;
\* return cursor.rowcount > 0; on an exception print it and return False.
delete_approved_job(pk) ==
    /\ \E f \in FailPoints :
         LET work == IF f = "execute" THEN Db
                     ELSE [Db EXCEPT !.approved = {a \in approved : a.id # pk}]
         IN  /\ Install(get_conn(Db, work, f # "none"))
             /\ sret' = [op |-> "delete_approved_job",
                         result |-> IF f = "none" THEN \E a \in approved : a.id = pk
                                    ELSE FALSE]
             /\ serr' = IF f = "none" THEN "none" ELSE "caught"
    /\ UNCHANGED <<now, approve_sel, scanVars, evalVars, restVars>>

\* clear_all_approved_jobs: DELETE FROM approved_jobs WHERE user_id = ?;
\* return cursor.rowcount; an exception propagates.
clear_all_approved_jobs ==
    /\ \E f \in FailPoints :
         LET work == IF f = "execute" THEN Db ELSE [Db EXCEPT !.approved = {}]
         IN  /\ Install(get_conn(Db, work, f # "none"))
             /\ sret' = [op |-> "clear_all_approved_jobs",
                         result |-> IF f = "none" THEN Cardinality(approved) ELSE NULL]
             /\ serr' = IF f = "none" THEN "none" ELSE "raised"
    /\ UNCHANGED <<now, approve_sel, scanVars, evalVars, restVars>>

\* A clear that deletes discovered_jobs only and reports every row it met.
clear_all_discovered_jobs_keeps_approved ==
    /\ discovered' = {}
    /\ sret' = [op |-> "clear_all_discovered_jobs",
                result |-> Cardinality(discovered) + Cardinality(approved)]
    /\ serr' = "none"
    /\ UNCHANGED <<approved, next_did, next_aid, now, approve_sel, scanVars, evalVars, restVars>>

\* clear_all_discovered_jobs: DELETE FROM approved_jobs ...; DELETE FROM
\* discovered_jobs ...; return the second cursor's rowcount; on an exception
\* print it and return 0.
clear_all_discovered_jobs ==
    /\ \E f \in ClearFailPoints :
         LET work == CASE f = "execute"  -> Db
                       [] f = "execute2" -> [Db EXCEPT !.approved = {}]
                       [] OTHER          -> [Db EXCEPT !.approved = {}, !.discovered = {}]
         IN  /\ Install(get_conn(Db, work, f # "none"))
             /\ sret' = [op |-> "clear_all_discovered_jobs",
                         result |-> IF f = "none" THEN Cardinality(discovered) ELSE 0]
             /\ serr' = IF f = "none" THEN "none" ELSE "caught"
    /\ UNCHANGED <<now, approve_sel, scanVars, evalVars, restVars>>

\* An UPDATE without the `date_applied IS NOT NULL` condition.
archive_all_applied_jobs_archives_unapplied ==
    /\ approved' = {IF ~a.is_archived THEN [a EXCEPT !.is_archived = TRUE] ELSE a :
                    a \in approved}
    /\ sret' = [op |-> "archive_all_applied_jobs",
                result |-> Cardinality({a \in approved : ~a.is_archived})]
    /\ serr' = "none"
    /\ UNCHANGED <<discovered, next_did, next_aid, now, approve_sel, scanVars, evalVars, restVars>>

\* archive_all_applied_jobs: UPDATE approved_jobs SET is_archived = TRUE WHERE
\* user_id = ? AND date_applied IS NOT NULL AND (is_archived IS NULL OR
\* is_archived = FALSE); return cursor.rowcount; an exception propagates.
archive_all_applied_jobs ==
    /\ \E f \in FailPoints :
         LET hit == {a \in approved : a.date_applied # Unset /\ ~a.is_archived}
             work == IF f = "execute" THEN Db
                     ELSE [Db EXCEPT !.approved =
                             {IF a \in hit THEN [a EXCEPT !.is_archived = TRUE] ELSE a :
                              a \in approved}]
         IN  /\ Install(get_conn(Db, work, f # "none"))
             /\ sret' = [op |-> "archive_all_applied_jobs",
                         result |-> IF f = "none" THEN Cardinality(hit) ELSE NULL]
             /\ serr' = IF f = "none" THEN "none" ELSE "raised"
    /\ UNCHANGED <<now, approve_sel, scanVars, evalVars, restVars>>

\* The wall clock behind CURRENT_TIMESTAMP moves on.
Tick ==
    /\ now < MaxTime
    /\ now' = now + 1
    /\ UNCHANGED <<discovered, approved, next_did, next_aid, approve_sel, sret, serr,
                   scanVars, evalVars, restVars>>

\* ------------------------------------------- concurrent /api/job/<id>/apply --
\* Each request runs mark_job_as_applied in a thread of its own, on a
\* connection of its own.  The UPDATE takes the database write lock when it
\* starts and keeps it until conn.commit(); a second writer waits for the
\* lock or gives up with "database is locked".
Handlers == {"h1", "h2"}
NoWriter == "nobody"
NoApply == [pk |-> 0, open |-> FALSE, hit |-> {}, stamp |-> <<>>]

\* An UPDATE whose WHERE clause lacks `AND date_applied IS NULL`.
unapplied_rows_any(pk) == {a \in approved : a.id = pk}

\* The rows matched by WHERE user_id = ? AND id = ? AND date_applied IS NULL.
unapplied_rows(pk) == {a \in approved : a.id = pk /\ a.date_applied = Unset}

\* POST /api/job/<approved_id>/apply arrives: database.mark_job_as_applied(approved_id)
ApplyCall(h, pk) ==
    /\ apc[h] = "idle"
    /\ aret[h] = NoRet
    /\ apc' = [apc EXCEPT ![h] = "execute"]
    /\ acall' = [acall EXCEPT ![h] = [pk |-> pk,
                                      open |-> \E a \in approved :
                                                  a.id = pk /\ a.date_applied = Unset,
                                      hit |-> {}, stamp |-> <<>>]]
    /\ UNCHANGED <<aret, db_writer, scanVars, storeVars, evalVars,
                   textVars, waitVars, pipeVars>>

\* conn.execute(sql, ...): the UPDATE runs under the write lock, in the
\* connection's own transaction; cursor.rowcount is the number of rows it matched.
ApplyExecute(h) ==
    /\ apc[h] = "execute"
    /\ db_writer = NoWriter
    /\ db_writer' = h
    /\ acall' = [acall EXCEPT ![h].hit = {a.id : a \in unapplied_rows(acall[h].pk)},
                              ![h].stamp = <<now>>]
    /\ apc' = [apc EXCEPT ![h] = "commit"]
    /\ UNCHANGED <<aret, scanVars, storeVars, evalVars, textVars, waitVars, pipeVars>>

\* conn.execute raises sqlite3.OperationalError (database is locked) while
\* another connection holds the write lock; get_conn rolls back, the except
\* branch prints the error and returns False.
ApplyLocked(h) ==
    /\ apc[h] = "execute"
    /\ db_writer \notin {NoWriter, h}
    /\ aret' = [aret EXCEPT ![h] = [op |-> "mark_job_as_applied", result |-> FALSE]]
    /\ apc' = [apc EXCEPT ![h] = "idle"]
    /\ UNCHANGED <<acall, db_writer, scanVars, storeVars, evalVars,
                   textVars, waitVars, pipeVars>>

\* return cursor.rowcount > 0 leaves the with-block: conn.commit() publishes
\* the UPDATE and releases the lock; when the commit raises, get_conn rolls
\* back and the call returns False.
ApplyCommit(h) ==
    /\ apc[h] = "commit"
    /\ \E f \in FailPoints \ {"execute"} :
         LET work == [Db EXCEPT !.approved =
                        {IF a.id \in acall[h].hit
                         THEN [a EXCEPT !.date_applied = acall[h].stamp] ELSE a :
                         a \in approved}]
         IN  /\ Install(get_conn(Db, work, f # "none"))
             /\ aret' = [aret EXCEPT ![h] =
                           [op |-> "mark_job_as_applied",
                            result |-> IF f = "none" THEN acall[h].hit # {} ELSE FALSE]]
    /\ db_writer' = NoWriter
    /\ apc' = [apc EXCEPT ![h] = "idle"]
    /\ UNCHANGED <<acall, now, approve_sel, sret, serr, scanVars, evalVars,
                   textVars, waitVars, pipeVars>>

\* ============================================================ evaluator ===
\* Strings that the code inspects character by character are sequences of
\* one-character strings; strings it only compares are TLA+ strings.

UpperToLower ==
    [A |-> "a", B |-> "b", C |-> "c", D |-> "d", E |-> "e", F |-> "f", G |-> "g",
     H |-> "h", I |-> "i", J |-> "j", K |-> "k", L |-> "l", M |-> "m", N |-> "n",
     O |-> "o", P |-> "p", Q |-> "q", R |-> "r", S |-> "s", T |-> "t", U |-> "u",
     V |-> "v", W |-> "w", X |-> "x", Y |-> "y", Z |-> "z"]

UpperCase == DOMAIN UpperToLower

LowerCase == {UpperToLower[c] : c \in UpperCase}

\* What str.lower() and re.I do to one character.
lower_char(c) == IF c \in UpperCase THEN UpperToLower[c] ELSE c

\* str.lower()
lower(s) == [i \in 1..Len(s) |-> lower_char(s[i])]

\* The regular expression class \w.
IsWordChar(c) == c \in UpperCase \cup LowerCase \cup {"0", "1", "2", "3", "4", "5", "6", "7", "8", "9", "_"}

\* The literals analyze_job compares the provider name with.
OpenAiName == <<"o", "p", "e", "n", "a", "i">>
GeminiName == <<"g", "e", "m", "i", "n", "i">>

OpenAiPlaceholder == "YOUR_OPENAI_API_KEY_HERE"
GooglePlaceholder == "YOUR_GOOGLE_API_KEY_HERE"

\* general.ai_provider as configured: <<>> when the field is absent, else <<s>>.
ProviderInputs ==
    {<<>>, <<OpenAiName>>, <<<<"O", "p", "e", "n", "A", "I">>>>,
     <<GeminiName>>, <<<<"G", "E", "M", "I", "N", "I">>>>,
     <<<<"C", "l", "a", "u", "d", "e">>>>, <<<<"o", "p", "e", "n">>>>, <<<<>>>>}

\* api_keys.openai_api_key / google_api_key: NULL when the field is absent.
OpenAiKeyInputs == {NULL, "", OpenAiPlaceholder, "key"}
GoogleKeyInputs == {NULL, "", GooglePlaceholder, "key"}

\* What get_user_config may return.
UserConfigs ==
    [ai_provider : ProviderInputs, openai_api_key : OpenAiKeyInputs,
     google_api_key : GoogleKeyInputs]

\* Job descriptions handed to the evaluator.
DescInputs == {"d1", "d2"}

\* What the remote model does with a request: answers, or the call raises.
Replies == {[kind |-> "verdict", eligible |-> TRUE],
            [kind |-> "verdict", eligible |-> FALSE],
            [kind |-> "error"]}

\* prompt_eligibility: the prompt built around a job description.
prompt_eligibility(desc) == [description |-> desc]

\* What a provider call comes to: the parsed verdict for the prompt it was
\* sent, or the exception of the failed request.
Outcome(prompt, reply) ==
    IF reply.kind = "verdict"
    THEN [kind |-> "verdict", prompt |-> prompt, eligible |-> reply.eligible]
    ELSE [kind |-> "provider_error"]

\* call_openai: one chat.completions request.
call_openai(prompt, api_key, reply) ==
    [calls |-> <<[provider |-> "openai", prompt |-> prompt, key |-> api_key]>>,
     out   |-> Outcome(prompt, reply)]

\* call_gemini: the key check, then one generate_content request.
call_gemini(prompt, user_config, reply) ==
    LET google_api_key == user_config.google_api_key
    IN  IF google_api_key = NULL \/ google_api_key = "" \/ google_api_key = GooglePlaceholder
        THEN [calls |-> <<>>,
              out   |-> [kind |-> "key_not_configured", provider |-> "gemini"]]
        ELSE [calls |-> <<[provider |-> "gemini", prompt |-> prompt, key |-> google_api_key]>>,
              out   |-> Outcome(prompt, reply)]

\* A dispatch that sends the request whatever the key is.
analyze_job_no_key_check(job_description, user_config, reply) ==
    LET prompt == prompt_eligibility(job_description)
        provider_to_use == lower(IF user_config.ai_provider = <<>> THEN OpenAiName
                                 ELSE user_config.ai_provider[1])
    IN  IF provider_to_use = OpenAiName
        THEN call_openai(prompt, user_config.openai_api_key, reply)
        ELSE IF provider_to_use = GeminiName
        THEN [calls |-> <<[provider |-> "gemini", prompt |-> prompt,
                           key |-> user_config.google_api_key]>>,
              out   |-> Outcome(prompt, reply)]
        ELSE [calls |-> <<>>,
              out   |-> [kind |-> "invalid_provider", value |-> provider_to_use]]

\* A dispatch that compares the configured name as it is written.
analyze_job_case_sensitive(job_description, user_config, reply) ==
    LET prompt == prompt_eligibility(job_description)
        provider_to_use == IF user_config.ai_provider = <<>> THEN OpenAiName
                           ELSE user_config.ai_provider[1]
    IN  IF provider_to_use = OpenAiName
        THEN LET openai_api_key == user_config.openai_api_key
             IN  IF openai_api_key = NULL \/ openai_api_key = ""
                    \/ openai_api_key = OpenAiPlaceholder
                 THEN [calls |-> <<>>,
                       out   |-> [kind |-> "key_not_configured", provider |-> "openai"]]
                 ELSE call_openai(prompt, openai_api_key, reply)
        ELSE IF provider_to_use = GeminiName
        THEN call_gemini(prompt, user_config, reply)
        ELSE [calls |-> <<>>,
              out   |-> [kind |-> "invalid_provider", value |-> provider_to_use]]

\* analyze_job: provider_to_use = config.get("ai_provider", "openai").lower();
\* "openai": key check, then call_openai; "gemini": call_gemini; otherwise
\* ValueError naming provider_to_use.  `calls` are the requests sent, `out`
\* the verdict returned or the exception raised.
analyze_job(job_description, user_config, reply) ==
    LET prompt == prompt_eligibility(job_description)
        provider_to_use == lower(IF user_config.ai_provider = <<>> THEN OpenAiName
                                 ELSE user_config.ai_provider[1])
    IN  IF provider_to_use = OpenAiName
        THEN LET openai_api_key == user_config.openai_api_key
             IN  IF openai_api_key = NULL \/ openai_api_key = ""
                    \/ openai_api_key = OpenAiPlaceholder
                 THEN [calls |-> <<>>,
                       out   |-> [kind |-> "key_not_configured", provider |-> "openai"]]
                 ELSE call_openai(prompt, openai_api_key, reply)
        ELSE IF provider_to_use = GeminiName
        THEN call_gemini(prompt, user_config, reply)
        ELSE [calls |-> <<>>,
              out   |-> [kind |-> "invalid_provider", value |-> provider_to_use]]

NoBatch == [kind |-> "none"]
NoCall == [kind |-> "none"]

\* All sequences over S of length at most n.
SeqsUpTo(S, n) == UNION {[1..k -> S] : k \in 0..n}

\* batch_analyse_jobs is called with a list of descriptions.
batch_analyse_jobs_call(descs) ==
    /\ bpc = "idle"
    /\ job_descriptions' = descs
    /\ bpc' = "loop"
    /\ done' = <<>>
    /\ calls' = <<>>
    /\ bret' = NoBatch
    /\ last' = NoCall
    /\ UNCHANGED <<excl, scanVars, storeVars, restVars>>

\* A comprehension that collects whatever analyze_job came to and goes on.
batch_analyse_jobs_step_continues ==
    /\ bpc = "loop"
    /\ Len(done) < Len(job_descriptions)
    /\ \E user_config \in UserConfigs, reply \in Replies :
         LET r == analyze_job(job_descriptions[Len(done) + 1], user_config, reply)
         IN  /\ calls' = calls \o r.calls
             /\ last' = [kind |-> "analyze_job", user_config |-> user_config,
                         out |-> r.out, sent |-> r.calls]
             /\ done' = Append(done, r.out)
    /\ UNCHANGED <<job_descriptions, bpc, bret, excl, scanVars, storeVars, restVars>>

\* One turn of the comprehension: analyze_job on the next description; its
\* verdict is collected, its exception leaves batch_analyse_jobs.
batch_analyse_jobs_step ==
    /\ bpc = "loop"
    /\ Len(done) < Len(job_descriptions)
    /\ \E user_config \in UserConfigs, reply \in Replies :
         LET r == analyze_job(job_descriptions[Len(done) + 1], user_config, reply)
         IN  /\ calls' = calls \o r.calls
             /\ last' = [kind |-> "analyze_job", user_config |-> user_config,
                         out |-> r.out, sent |-> r.calls]
             /\ IF r.out.kind = "verdict"
                THEN /\ done' = Append(done, r.out)
                     /\ UNCHANGED <<bpc, bret>>
                ELSE /\ bret' = [kind |-> "raised", error |-> r.out, at |-> Len(done) + 1]
                     /\ bpc' = "idle"
                     /\ UNCHANGED done
    /\ UNCHANGED <<job_descriptions, excl, scanVars, storeVars, restVars>>

\* The comprehension is exhausted: the list is returned.
batch_analyse_jobs_return ==
    /\ bpc = "loop"
    /\ Len(done) = Len(job_descriptions)
    /\ bret' = [kind |-> "list", value |-> done]
    /\ bpc' = "idle"
    /\ UNCHANGED <<job_descriptions, done, calls, last, excl, scanVars, storeVars, restVars>>

\* ---- contains_exclusions
\* The pattern (?<!\w)word(?!\w), with re.I, tried at position i of title.
MatchAt(word, title, i) ==
    /\ i + Len(word) - 1 <= Len(title)
    /\ \A k \in 1..Len(word) : lower_char(title[i + k - 1]) = lower_char(word[k])
    /\ i = 1 \/ ~IsWordChar(title[i - 1])
    /\ i + Len(word) > Len(title) \/ ~IsWordChar(title[i + Len(word)])

\* A search for the bare word, without the two lookarounds.
re_search_substring(word, title) ==
    \E i \in 1..(Len(title) + 1) :
        /\ i + Len(word) - 1 <= Len(title)
        /\ \A k \in 1..Len(word) : lower_char(title[i + k - 1]) = lower_char(word[k])

\* re.search(pattern, title, re.I): the pattern matches at some position.
re_search(word, title) == \E i \in 1..(Len(title) + 1) : MatchAt(word, title, i)

\* contains_exclusions: exclusion_keywords is <<>> for None, else <<list>>.
contains_exclusions(title, exclusion_keywords) ==
    IF exclusion_keywords = <<>> \/ exclusion_keywords[1] = <<>>
    THEN FALSE
    ELSE \E n \in 1..Len(exclusion_keywords[1]) : re_search(exclusion_keywords[1][n], title)

SeniorBackendEngineer ==
    <<"S", "e", "n", "i", "o", "r", " ", "B", "a", "c", "k", "e", "n", "d", " ",
      "E", "n", "g", "i", "n", "e", "e", "r">>
SeniorProject == <<"S", "e", "n", "i", "o", "r", " ", "P", "r", "o", "j", "e", "c", "t">>
Senior == <<"S", "e", "n", "i", "o", "r">>

\* Characters that the generated titles are made of.
TitleChars == {"a", "A", "b", " "}

\* Job titles: every short string over TitleChars, and the two titles above.
TitleInputs == SeqsUpTo(TitleChars, MaxTitleLen) \cup {SeniorBackendEngineer, SeniorProject}

\* Exclusion keywords the operator may configure.
KeywordInputs == {<<"a">>, <<"A", "b">>, <<"b", " ">>, <<" ", "a">>, <<>>, Senior}

\* The exclusion_keywords argument: None, [], one keyword or two.
KeywordListInputs ==
    {<<>>, <<<<>>>>} \cup {<<<<k>>>> : k \in KeywordInputs}
        \cup {<<<<k1, k2>>>> : k1 \in KeywordInputs, k2 \in KeywordInputs}

NoExcl == [kind |-> "none"]

\* The scan pipeline asks whether a title is excluded.
contains_exclusions_call(title, exclusion_keywords) ==
    /\ excl = NoExcl
    /\ excl' = [kind |-> "contains_exclusions", title |-> title,
                exclusion_keywords |-> exclusion_keywords,
                result |-> contains_exclusions(title, exclusion_keywords)]
    /\ UNCHANGED <<job_descriptions, bpc, done, calls, bret, last, scanVars, storeVars, restVars>>

\* ================================================== external-id extraction ===
\* A URL is a sequence of one-character strings.
\* The literal prefix of _JOB_ID_RE.
View == <<"/", "j", "o", "b", "s", "/", "v", "i", "e", "w", "/">>

DigitSeq == <<"0", "1", "2", "3", "4", "5", "6", "7", "8", "9">>

\* \d, on the ASCII digits.
Digits == {DigitSeq[i] : i \in 1..Len(DigitSeq)}

DigitValue(c) == (CHOOSE i \in 1..Len(DigitSeq) : DigitSeq[i] = c) - 1

\* int(match.group(1)): the decimal value of a digit string.
RECURSIVE int(_)
int(s) ==
    IF Len(s) = 0 THEN 0
    ELSE int(SubSeq(s, 1, Len(s) - 1)) * 10 + DigitValue(s[Len(s)])

\* "/jobs/view/" occupies positions i .. i + Len(View) - 1 of url.
LiteralAt(url, i) ==
    /\ i + Len(View) - 1 <= Len(url)
    /\ \A k \in 1..Len(View) : url[i + k - 1] = View[k]

\* (?:[/?]|$) right after position m.  Without re.M, $ matches at the end of
\* the string and also just before a newline that ends the string.
TerminatedAfter(url, m) ==
    \/ m = Len(url)
    \/ /\ m < Len(url)
       /\ \/ url[m + 1] \in {"/", "?"}
          \/ m + 1 = Len(url) /\ url[m + 1] = "\n"

\* (\d+)(?:[/?]|$) tried at position p: the positions at which the group can
\* end.  \d+ is greedy and gives digits back one at a time.
GroupEnds(url, p) ==
    {m \in p..Len(url) :
        /\ \A k \in p..m : url[k] \in Digits
        /\ TerminatedAfter(url, m)}

\* (?:[^/?]*-) tried at position e: the positions of the "-" it can end on.
SlugEnds(url, e) ==
    {k \in e..Len(url) :
        /\ url[k] = "-"
        /\ \A q \in e..k : url[q] \notin {"/", "?"}}

Greatest(S) == CHOOSE x \in S : \A y \in S : y <= x

Least(S) == CHOOSE x \in S : \A y \in S : x <= y

NoMatch == [found |-> FALSE]

\* A matcher that takes the first digit run after the literal, slug or not,
\* whatever follows the digits.
MatchFromLoose(url, i) ==
    IF ~LiteralAt(url, i) THEN NoMatch
    ELSE LET e == i + Len(View)
             starts == {p \in e..Len(url) : url[p] \in Digits}
         IN  IF starts = {} THEN NoMatch
             ELSE LET p == Least(starts)
                      ends == {m \in p..Len(url) : \A k \in p..m : url[k] \in Digits}
                  IN  [found |-> TRUE, from |-> p, to |-> Greatest(ends)]

\* The pattern tried at position i: the slug is optional and greedy, so the
\* longest slug that lets the rest match is taken, and no slug otherwise.
MatchFrom(url, i) ==
    IF ~LiteralAt(url, i) THEN NoMatch
    ELSE LET e == i + Len(View)
             slugs == {k \in SlugEnds(url, e) : GroupEnds(url, k + 1) # {}}
         IN  IF slugs # {}
             THEN LET p == Greatest(slugs) + 1
                  IN  [found |-> TRUE, from |-> p, to |-> Greatest(GroupEnds(url, p))]
             ELSE IF GroupEnds(url, e) # {}
                  THEN [found |-> TRUE, from |-> e, to |-> Greatest(GroupEnds(url, e))]
                  ELSE NoMatch

\* _JOB_ID_RE.search(url): the match at the leftmost position that has one.
JOB_ID_RE_search(url) ==
    LET at == {i \in 1..Len(url) : MatchFrom(url, i).found}
    IN  IF at = {} THEN NoMatch ELSE MatchFrom(url, Least(at))

NotFound == [found |-> FALSE]

\* extract_job_id_from_url: the id, or None.
extract_job_id_from_url(url) ==
    LET match == JOB_ID_RE_search(url)
    IN  IF match.found
        THEN [found |-> TRUE, id |-> int(SubSeq(url, match.from, match.to))]
        ELSE NotFound

UrlChars == {"0", "1", "a", "-", "/", "?", "\n"}

\* "https://x.example/jobs/view/software-engineer-38472/"
ExampleUrl ==
    <<"h", "t", "t", "p", "s", ":", "/", "/", "x", ".", "e", "x", "a", "m", "p",
      "l", "e">> \o View \o
    <<"s", "o", "f", "t", "w", "a", "r", "e", "-", "e", "n", "g", "i", "n", "e",
      "e", "r", "-", "3", "8", "4", "7", "2", "/">>

\* The URLs handed to extract_job_id_from_url: every short string; the literal
\* (alone or after a host) followed by every short string; the literal twice;
\* and the example.  Python integers are unbounded; the digit runs here all
\* stay far below 2^31.
UrlInputs ==
    LET tails == SeqsUpTo(UrlChars, MaxUrlTail)
        short == SeqsUpTo(UrlChars, 1)
    IN  tails
        \cup {View \o t : t \in tails}
        \cup {<<"a", "-", "1">> \o View \o t : t \in tails}
        \cup {View \o a \o View \o b : a \in short, b \in short}
        \cup {ExampleUrl}

NoXid == [url |-> <<>>, result |-> NotFound, called |-> FALSE]

\* One call of extract_job_id_from_url.
extract_job_id_from_url_call(url) ==
    /\ xid = NoXid
    /\ xid' = [url |-> url, result |-> extract_job_id_from_url(url), called |-> TRUE]
    /\ UNCHANGED <<sent, gem, waitVars, pipeVars, scanVars, storeVars, evalVars, applyVars>>

\* =========================================================== prompt text ===
\* A text is a sequence of code points, each written as a one-element string:
\* an ASCII character as itself, any other code point as "U+xxxx".
\* The keys of sanitize_text's replacements.
SmartChars == {"U+2011", "U+2013", "U+2014", "U+2018", "U+2019", "U+201C", "U+201D"}

\* Code points of 128 and above that occur in the inputs.
NonAscii == SmartChars \cup {"U+00E9"}

\* ASCII control characters that occur in the inputs (BEL, and the newline).
ControlChars == {"U+0007", "\n"}

\* replacements[char], or char itself when it is not a key.
replacement(char) ==
    CASE char \in {"U+2011", "U+2013", "U+2014"} -> "-"
      [] char \in {"U+2018", "U+2019"} -> "'"
      [] char \in {"U+201C", "U+201D"} -> "\""
      [] OTHER -> char

\* Line 53: the characters with ord(char) < 128 are kept.
RECURSIVE keep_ascii(_)
keep_ascii(text) ==
    IF text = <<>> THEN <<>>
    ELSE (IF Head(text) \in NonAscii THEN <<>> ELSE <<Head(text)>>)
         \o keep_ascii(Tail(text))

\* sanitize_text
sanitize_text(text) == keep_ascii([k \in 1..Len(text) |-> replacement(text[k])])

Whitespace == {" ", "\n"}

RECURSIVE lstrip(_)
lstrip(text) ==
    IF text # <<>> /\ Head(text) \in Whitespace THEN lstrip(Tail(text)) ELSE text

RECURSIVE rstrip(_)
rstrip(text) ==
    IF text # <<>> /\ text[Len(text)] \in Whitespace
    THEN rstrip(SubSeq(text, 1, Len(text) - 1))
    ELSE text

\* str.strip()
strip(text) == rstrip(lstrip(text))

\* The fixed parts of the template, each written as one element.
Preamble == <<"You are an AI recruiter assistant. ...">>
CriteriaHeader == <<"\n\nEvaluation Criteria:\n">>
DescriptionHeader == <<"\n\nJob Description:\n">>
ResumeHeader == <<"\n\nCandidate Resume:\n">>
Footer == <<"\n\nRespond using ONLY valid JSON with the following schema: ...">>

\* Python truthiness of an optional string: <<>> is None, <<text>> a string.
Truthy(opt) == opt # <<>> /\ opt[1] # <<>>

\* The same template with the resume block ahead of the description block.
prompt_eligibility_text_resume_first(job_description, user_config, resume) ==
    LET criteria == IF user_config.prompts # <<>>
                    THEN CriteriaHeader \o user_config.prompts[1]
                    ELSE <<>>
        used == IF ~Truthy(resume) THEN user_config.resume ELSE resume
        description == DescriptionHeader \o sanitize_text(strip(job_description))
    IN  Preamble \o criteria \o
        (IF Truthy(used)
         THEN ResumeHeader \o sanitize_text(strip(used[1])) \o description
         ELSE description)
        \o Footer

\* prompt_eligibility, as the text it returns.  user_config.prompts is <<>>
\* when the key evaluation_prompt is absent, user_config.resume is <<>> when
\* resume.text is.
prompt_eligibility_text(job_description, user_config, resume) ==
    LET criteria == IF user_config.prompts # <<>>
                    THEN CriteriaHeader \o user_config.prompts[1]
                    ELSE <<>>
        used == IF ~Truthy(resume) THEN user_config.resume ELSE resume
        description == DescriptionHeader \o sanitize_text(strip(job_description))
    IN  Preamble \o criteria \o
        (IF Truthy(used)
         THEN description \o ResumeHeader \o sanitize_text(strip(used[1]))
         ELSE description)
        \o Footer

\* call_openai line 90-97: the content of the message sent.
openai_content(prompt) == sanitize_text(prompt)

\* call_gemini line 117-119: the argument of generate_content.
gemini_content(prompt) == prompt

TextChars == {"a", " ", "U+2019", "U+2014", "U+00E9"}

\* Job descriptions: every short text, and some longer ones.
TextInputs ==
    SeqsUpTo(TextChars, MaxTextLen)
    \cup {<<c>> : c \in SmartChars \cup ControlChars}
    \cup {<<" ", "U+201C", "a", "U+201D", "\n">>, <<"a", "U+2013", "U+00E9", "'">>}

\* prompts.evaluation_prompt: absent, empty, plain, or with accents and quotes.
CriteriaInputs == {<<>>, <<<<>>>>, <<<<"a">>>>, <<<<"U+00E9", "a">>>>, <<<<"U+2018", "a", "U+2019">>>>}

\* The resume argument: None, empty, or a text.
ResumeInputs == {<<>>, <<<<>>>>, <<<<"a", " ">>>>, <<<<"U+201C", "U+00E9">>>>}

\* resume.text of the configuration: absent or a text.
ConfigResumeInputs == {<<>>, <<<<"a", "U+2011", "a">>>>}

PromptConfigs == [prompts : CriteriaInputs, resume : ConfigResumeInputs]

NoSent == [built |-> FALSE]

\* analyze_job builds the prompt and hands it to the selected provider's
\* call; both providers' request contents are recorded.
prompt_eligibility_call(job_description, user_config, resume) ==
    /\ sent = NoSent
    /\ LET prompt == prompt_eligibility_text(job_description, user_config, resume)
       IN  sent' = [built |-> TRUE,
                    job_description |-> job_description,
                    user_config |-> user_config,
                    resume |-> resume,
                    prompt |-> prompt,
                    openai |-> openai_content(prompt),
                    gemini |-> gemini_content(prompt)]
    /\ UNCHANGED <<xid, gem, waitVars, pipeVars, scanVars, storeVars, evalVars, applyVars>>

\* ======================================================== Gemini response ===
Fence == <<"U+0060", "U+0060", "U+0060">>

\* Whether pat occupies positions i .. i + Len(pat) - 1 of text.
Occurs(pat, text, i) ==
    /\ i >= 1
    /\ i + Len(pat) - 1 <= Len(text)
    /\ \A k \in 1..Len(pat) : text[i + k - 1] = pat[k]

\* A leading fence without the optional "json".
LeadingFencePlain(text) ==
    IF Occurs(Fence \o <<"\n">>, text, 1) THEN Len(Fence) + 1 ELSE 0

\* The first alternative of _FENCE_RE, three U+0060 (grave accent), an
\* optional "json" and a newline, anchored at the start: how many characters it matches at the start of text,
\* 0 if it does not match.
LeadingFence(text) ==
    IF Occurs(Fence \o <<"j", "s", "o", "n", "\n">>, text, 1) THEN Len(Fence) + 5
    ELSE IF Occurs(Fence \o <<"\n">>, text, 1) THEN Len(Fence) + 1
    ELSE 0

\* The second alternative, a newline and three U+0060 before $: the
\* positions at or after from where it matches.  $ matches at
\* the end of the text and just before a newline that ends it.
TrailingFence(text, from) ==
    {p \in from..Len(text) :
        /\ Occurs(<<"\n">> \o Fence, text, p)
        /\ \/ p + Len(Fence) = Len(text)
           \/ p + Len(Fence) + 1 = Len(text) /\ text[Len(text)] = "\n"}

\* _FENCE_RE.sub("", text): the matches are found from left to right, without
\* overlap, and removed.
FENCE_RE_sub(text) ==
    LET lead == LeadingFence(text)
        trail == TrailingFence(text, lead + 1)
    IN  IF trail = {} THEN SubSeq(text, lead + 1, Len(text))
        ELSE LET p == Least(trail)
             IN  SubSeq(text, lead + 1, p - 1)
                 \o SubSeq(text, p + Len(Fence) + 1, Len(text))

\* JSON documents, each written as one element.
JsonDocs == {"{\"eligible\": true, ...}", "{\"eligible\": false, ...}"}

\* The whitespace json.loads skips around a value (that occurs in the inputs).
JsonWhitespace == {" ", "\n"}

RECURSIVE skip_ws(_)
skip_ws(text) ==
    IF text # <<>> /\ Head(text) \in JsonWhitespace THEN skip_ws(Tail(text)) ELSE text

RECURSIVE skip_ws_end(_)
skip_ws_end(text) ==
    IF text # <<>> /\ text[Len(text)] \in JsonWhitespace
    THEN skip_ws_end(SubSeq(text, 1, Len(text) - 1))
    ELSE text

ParseError == [kind |-> "raised", error |-> "JSONDecodeError"]

\* json.loads(txt): the document, or JSONDecodeError.
json_loads(txt) ==
    LET value == skip_ws_end(skip_ws(txt))
    IN  IF Len(value) = 1 /\ value[1] \in JsonDocs
        THEN [kind |-> "verdict", value |-> value[1]]
        ELSE ParseError

\* call_gemini lines 120-121, on the text of the response.
gemini_parse(text) == json_loads(FENCE_RE_sub(strip(text)))

BodyChars == JsonDocs \cup {"x", " ", "\n"}

BodyInputs == SeqsUpTo(BodyChars, MaxBodyLen)

\* What may stand before and after the body of a response.
LeadInputs ==
    {<<>>, Fence \o <<"\n">>, Fence \o <<"j", "s", "o", "n", "\n">>, Fence,
     Fence \o <<"j", "s", "\n">>, <<" ", "\n">> \o Fence \o <<"\n">>, <<"U+0060", "U+0060", "\n">>}

TrailInputs ==
    {<<>>, <<"\n">> \o Fence, Fence, <<"\n">> \o Fence \o <<"\n", " ">>,
     <<"\n", "U+0060", "U+0060">>, <<"\n">> \o Fence \o <<"\n">> \o Fence}

GeminiTexts ==
    {lead \o body \o trail : lead \in LeadInputs, body \in BodyInputs, trail \in TrailInputs}

NoGem == [called |-> FALSE]

\* call_gemini receives resp.text and returns the parsed verdict or raises.
call_gemini_response(text) ==
    /\ gem = NoGem
    /\ gem' = [called |-> TRUE, text |-> text, result |-> gemini_parse(text)]
    /\ UNCHANGED <<xid, sent, waitVars, pipeVars, scanVars, storeVars, evalVars, applyVars>>

\* ========================================================= scan pipeline ===
\* A query that leaves out the analyzed = FALSE condition.
get_unanalyzed_jobs_ignores_flag ==
    {<<d.job_id, d.description>> : d \in {e \in discovered : e.description # NULL}}

\* get_unanalyzed_jobs: SELECT job_id, description FROM discovered_jobs
\* WHERE user_id = ? AND analyzed = FALSE AND description IS NOT NULL
get_unanalyzed_jobs ==
    {<<d.job_id, d.description>> :
        d \in {e \in discovered : ~e.analyzed /\ e.description # NULL}}

\* The title text behind each title value of the store.
TitleOf(title) ==
    IF title = "t1" THEN SeniorBackendEngineer ELSE <<"B", "a", "c", "k", "e", "n", "d">>

\* search_parameters.exclusion_keywords of the configuration.
PipelineExclusions == <<<<Senior>>>>

\* What the enrichment step stores: a title, with or without a description.
PipelineDetails == {<<"t1", "d1">>, <<"t2", "d1">>, <<"t1", NULL>>}

NoCur == [picked |-> FALSE]

\* The pipeline discovers a job.
PipelineDiscover ==
    /\ ppc = "idle"
    /\ \E j \in JobIds : insert_stub(j, <<"u1", "l1", "k1">>)

\* The pipeline enriches a job that misses its details.
PipelineEnrich ==
    /\ ppc = "idle"
    /\ \E j \in JobIds, det \in PipelineDetails :
         /\ row_missing_details(j)
         /\ update_details(j, det)

\* The evaluation phase begins with the jobs get_unanalyzed_jobs returns.
PipelineFetch ==
    /\ ppc = "idle"
    /\ todo' = get_unanalyzed_jobs
    /\ ppc' = "loop"
    /\ UNCHANGED <<cur, evaluated, verdicts, scanVars, storeVars, evalVars, textVars, waitVars, applyVars>>

\* The next job of the list is evaluated and the provider gives a verdict.
PipelineEvaluate ==
    /\ ppc = "loop"
    /\ \E job \in todo, eligible \in BOOLEAN :
         /\ evaluated[job[1]] < MaxEvaluations
         /\ todo' = todo \ {job}
         /\ cur' = [picked |-> TRUE, job_id |-> job[1], eligible |-> eligible,
                    had_description |->
                        \E d \in DiscoveredByJob(job[1]) : d.description # NULL,
                    was_analyzed |->
                        \E d \in DiscoveredByJob(job[1]) : d.analyzed]
         /\ evaluated' = [evaluated EXCEPT ![job[1]] = @ + 1]
         /\ verdicts' = [verdicts EXCEPT ![job[1]] =
                            IF eligible THEN "eligible" ELSE "ineligible"]
    /\ ppc' = "mark"
    /\ UNCHANGED <<scanVars, storeVars, evalVars, textVars, waitVars, applyVars>>

\* The evaluation of the next job fails: it is logged and the job is skipped.
PipelineEvaluateFails ==
    /\ ppc = "loop"
    /\ \E job \in todo : todo' = todo \ {job}
    /\ UNCHANGED <<ppc, cur, evaluated, verdicts, scanVars, storeVars, evalVars,
                   textVars, waitVars, applyVars>>

\* mark_job_as_analyzed(job_id), whatever the verdict.
PipelineMark ==
    /\ ppc = "mark"
    /\ discovered' = {IF d.job_id = cur.job_id THEN [d EXCEPT !.analyzed = TRUE] ELSE d :
                      d \in discovered}
    /\ sret' = [op |-> "mark_job_as_analyzed", result |-> NULL]
    /\ serr' = "none"
    /\ ppc' = "approve"
    /\ UNCHANGED <<approved, next_did, next_aid, now, approve_sel,
                   todo, cur, evaluated, verdicts, scanVars, evalVars, textVars, waitVars, applyVars>>

\* approve_job(job_id, reasoning), if the verdict is eligible and the title is
\* not excluded; then on to the next job.
PipelineApprove ==
    /\ ppc = "approve"
    /\ LET rows == DiscoveredByJob(cur.job_id)
           wanted == /\ cur.eligible
                     /\ \A d \in rows :
                           ~contains_exclusions(TitleOf(d.title), PipelineExclusions)
           fresh == \A d \in rows : ApprovedFor(d.id) = {}
       IN  IF wanted /\ rows # {}
           THEN /\ next_aid <= MaxApprovedId \/ ~fresh
                /\ approved' = IF fresh
                               THEN approved \cup
                                    {[id |-> next_aid, discovered_job_id |-> d.id,
                                      reason |-> "r1", date_approved |-> now,
                                      date_applied |-> Unset, is_archived |-> FALSE] :
                                     d \in rows}
                               ELSE approved
                /\ next_aid' = IF fresh THEN next_aid + 1 ELSE next_aid
                /\ sret' = [op |-> "approve_job", result |-> TRUE]
                /\ serr' = "none"
           ELSE UNCHANGED <<approved, next_aid, sret, serr>>
    /\ ppc' = IF todo = {} THEN "idle" ELSE "loop"
    /\ cur' = NoCur
    /\ UNCHANGED <<discovered, next_did, now, approve_sel,
                   todo, evaluated, verdicts, scanVars, evalVars, textVars, waitVars, applyVars>>

\* The list is empty: the evaluation phase ends.
PipelineDone ==
    /\ ppc = "loop"
    /\ todo = {}
    /\ ppc' = "idle"
    /\ UNCHANGED <<todo, cur, evaluated, verdicts, scanVars, storeVars, evalVars,
                   textVars, waitVars, applyVars>>

\* ------------------------------------------------------- specifications ---
ScanInitBase ==
    /\ scan_thread = 0
    /\ scan_stop_signal = FALSE
    /\ scan_lock = NoOwner
    /\ worker = [t \in Tids |-> "unborn"]
    /\ scan_control = NoRow
    /\ pc = [c \in Callers |-> "idle"]
    /\ ret = [c \in Callers |-> NoRet]
    /\ target = [c \in Callers |-> 0]
    /\ stopRaised = FALSE
    /\ sawSignal = FALSE
    /\ liveAtReturn = [c \in Callers |-> FALSE]
    /\ signalAtEntry = [c \in Callers |-> FALSE]

\* A request handler enters one of the three entry points ...
CallerCall(c) == StatusCall(c) \/ StartCall(c) \/ StopCall(c)

\* ... and runs it statement by statement.
CallerBody(c) ==
    \/ StatusLock(c) \/ StatusAlive(c) \/ StatusFlag(c)
    \/ StartLock(c) \/ StartCheck(c) \/ StartClear(c)
    \/ StartInit(c) \/ StartSetFlag(c) \/ StartCreate(c) \/ StartSpawn(c)
    \/ StopLock(c) \/ StopCheck(c) \/ StopSignal(c) \/ StopSetFlag(c)

CallerNext(c) == CallerCall(c) \/ CallerBody(c)

WorkerNext(t) ==
    \/ Work(t) \/ Checkpoint(t) \/ Hang(t) \/ ScrapeEnds(t)
    \/ FinallySignal(t) \/ FinallyDb(t) \/ ThreadExit(t)

ScanNext ==
    \/ \E c \in Callers : CallerNext(c)
    \/ \E t \in Tids : WorkerNext(t)

\* A thread that waits for the scan to complete.
WaitNext == WaitCall \/ WaitCheck \/ WaitJoin \/ WaitJoined \/ WaitReturn

\* Some thread writes one flag of user_scan_control directly.
ControlNext ==
    \/ \E stop \in BOOLEAN : set_stop_scan_flag_call(stop)
    \/ \E active \in BOOLEAN : set_scan_active_call(active)

\* database.init_db on a fresh file: the tables exist and are empty.
StoreInit ==
    /\ discovered = {}
    /\ approved = {}
    /\ next_did = 1
    /\ next_aid = 1
    /\ now = 0
    /\ approve_sel = <<>>
    /\ sret = [op |-> "none", result |-> NULL]
    /\ serr = "none"

\* One store call (or one statement of approve_job) about one of `jobs`, with
\* the scraper's stubs drawn from `stubs` and the approval reasons from
\* `reasons`.
StoreStepFor(jobs, stubs, reasons) ==
    \/ \E j \in jobs, stub \in stubs : insert_stub(j, stub)
    \/ \E j \in jobs, det \in DetailInputs : update_details(j, det)
    \/ \E j \in jobs : mark_job_as_analyzed(j)
    \/ \E j \in jobs, reason \in reasons : approve_job_select(j, reason)
    \/ approve_job_insert
    \/ \E pk \in 1..MaxApprovedId : mark_job_as_applied(pk)
    \/ \E pk \in 1..MaxApprovedId : delete_approved_job(pk)
    \/ clear_all_approved_jobs
    \/ clear_all_discovered_jobs
    \/ archive_all_applied_jobs

\* One store call about any job.
StoreStep(stubs, reasons) == StoreStepFor(JobIds, stubs, reasons)

StoreNext == StoreStep(StubInputs, Reasons) \/ Tick

\* The evaluator is imported: nothing has been evaluated yet.
EvalInit ==
    /\ job_descriptions = <<>>
    /\ bpc = "idle"
    /\ done = <<>>
    /\ calls = <<>>
    /\ bret = NoBatch
    /\ last = NoCall
    /\ excl = NoExcl

\* The scan pipeline evaluates a batch of descriptions.
EvalNext ==
    \/ \E descs \in SeqsUpTo(DescInputs, MaxBatch) : batch_analyse_jobs_call(descs)
    \/ batch_analyse_jobs_step
    \/ batch_analyse_jobs_return

\* The scan pipeline screens a title against the exclusion keywords.
ExclusionNext ==
    \E title \in TitleInputs, exclusion_keywords \in KeywordListInputs :
        contains_exclusions_call(title, exclusion_keywords)

\* Nothing has been parsed, built, waited for or evaluated yet.
TextInit ==
    /\ xid = NoXid
    /\ sent = NoSent
    /\ gem = NoGem

WaitInit ==
    /\ wpc = "idle"
    /\ wjoin = 0
    /\ wret = NoRet

PipeInit ==
    /\ ppc = "idle"
    /\ todo = {}
    /\ cur = NoCur
    /\ evaluated = [j \in JobIds |-> 0]
    /\ verdicts = [j \in JobIds |-> "none"]

\* No request to mark a job as applied has arrived; nobody writes the database.
ApplyInit ==
    /\ apc = [h \in Handlers |-> "idle"]
    /\ acall = [h \in Handlers |-> NoApply]
    /\ aret = [h \in Handlers |-> NoRet]
    /\ db_writer = NoWriter

RestInit == TextInit /\ WaitInit /\ PipeInit /\ ApplyInit

\* The scraper extracts the id of a job link.
UrlNext == \E url \in UrlInputs : extract_job_id_from_url_call(url)

\* The evaluator builds the prompt of one job.
PromptNext ==
    \E job_description \in TextInputs, user_config \in PromptConfigs, resume \in ResumeInputs :
        prompt_eligibility_call(job_description, user_config, resume)

\* The Gemini-style provider answers with some text.
GeminiNext == \E text \in GeminiTexts : call_gemini_response(text)

\* The scraper discovers jobs and fills in their details, the evaluator marks
\* them analyzed, a request handler clears the table.
DetailsNext ==
    \/ \E j \in JobIds, stub \in StubInputs : insert_stub(j, stub)
    \/ \E j \in JobIds, det \in AllDetailInputs : update_details(j, det)
    \/ \E j \in JobIds : mark_job_as_analyzed(j)
    \/ \E j \in JobIds : row_missing_details_call(j)
    \/ clear_all_discovered_jobs

\* One scan after another: discovery, enrichment, evaluation, approval.
PipelineNext ==
    \/ PipelineDiscover \/ PipelineEnrich \/ PipelineFetch
    \/ PipelineEvaluate \/ PipelineEvaluateFails \/ PipelineMark
    \/ PipelineApprove \/ PipelineDone

\* Store calls whose stub and reason arguments are always the same.
CoreStoreNext == StoreStep({<<"u1", "l1", "k1">>}, {"r1"})

\* The scan controller with a store that never fails.
ScanInit == ScanInitBase /\ faults = FALSE /\ StoreInit /\ EvalInit /\ RestInit

ScanSpec == ScanInit /\ [][ScanNext]_vars

\* The scan controller where persistence and import steps may raise.
ScanFaultInit == ScanInitBase /\ faults = TRUE /\ StoreInit /\ EvalInit /\ RestInit

\* The job store, driven by the scan pipeline and the request handlers.
StoreSpec == ScanInit /\ [][CoreStoreNext]_vars

\* The job store where conn.execute and conn.commit may raise.
\* The scraper keeps reporting the same job.
FaultStoreNext == StoreStepFor({101}, {<<"u1", "l1", "k1">>}, {"r1"})

StoreFaultSpec == ScanFaultInit /\ [][FaultStoreNext]_vars

\* The job store while the clock behind CURRENT_TIMESTAMP advances: every
\* call that reads or writes approved_jobs, and insert_stub, which makes the
\* rows that approved_jobs refers to.  The scraper keeps reporting the same
\* job; a second approved_jobs row comes from an approve_job that a
\* clear_all_discovered_jobs and a re-discovery overtake.
TimedStoreNext ==
    \/ \E j \in {101} : insert_stub(j, <<"u1", "l1", "k1">>)
    \/ \E j \in {101} : approve_job_select(j, "r1")
    \/ approve_job_insert
    \/ \E pk \in 1..MaxApprovedId : mark_job_as_applied(pk)
    \/ \E pk \in 1..MaxApprovedId : delete_approved_job(pk)
    \/ clear_all_approved_jobs
    \/ clear_all_discovered_jobs
    \/ archive_all_applied_jobs
    \/ Tick

TimedStoreSpec == ScanInit /\ [][TimedStoreNext]_vars

\* The evaluator, with every configuration and every provider reply.
EvalSpec == ScanInit /\ [][EvalNext]_vars

\* contains_exclusions on every title and keyword list.
ExclusionSpec == ScanInit /\ [][ExclusionNext]_vars

\* extract_job_id_from_url on every URL.
UrlSpec == ScanInit /\ [][UrlNext]_vars

\* prompt_eligibility and the two provider calls on every text.
PromptSpec == ScanInit /\ [][PromptNext]_vars

\* call_gemini's handling of every response text.
GeminiSpec == ScanInit /\ [][GeminiNext]_vars

\* The scan controller used by one request handler while another thread
\* waits for the scan to complete.
WaitSpec ==
    ScanInit /\ [][CallerNext("c1") \/ (\E t \in Tids : WorkerNext(t)) \/ WaitNext]_vars

\* The discovered_jobs table through discovery, enrichment and analysis.
DetailsSpec == ScanInit /\ [][DetailsNext]_vars

\* The scan pipeline on its own.
PipelineSpec == ScanInit /\ [][PipelineNext]_vars

\* The scan controller used by one request handler while the persisted flags
\* are also written directly.
ControlSpec ==
    ScanInit /\ [][CallerNext("c1") \/ (\E t \in Tids : WorkerNext(t)) \/ ControlNext]_vars

\* A job is discovered under one search and, once it has a row, found again
\* under another url, location and keyword, while it is enriched and
\* analyzed and the clock moves on.
RediscoverNext ==
    \/ DiscoveredByJob(101) = {} /\ insert_stub(101, <<"u1", "l1", "k1">>)
    \/ DiscoveredByJob(101) # {} /\ insert_stub(101, <<"u2", "l2", "k2">>)
    \/ insert_stub(102, <<"u1", "l1", "k1">>)
    \/ \E det \in {<<"t1", "d1">>, <<"t2", NULL>>} : update_details(101, det)
    \/ mark_job_as_analyzed(101)
    \/ clear_all_discovered_jobs
    \/ Tick

RediscoverSpec == ScanInit /\ [][RediscoverNext]_vars

\* A job is approved with one reason and, once it has a row, approved again
\* with another, while it is applied, archived and the clock moves on.
ReapproveNext ==
    \/ insert_stub(101, <<"u1", "l1", "k1">>)
    \/ approved = {} /\ approve_job_select(101, "r1")
    \/ approved # {} /\ approve_job_select(101, "r2")
    \/ approve_job_insert
    \/ \E pk \in 1..MaxApprovedId : mark_job_as_applied(pk)
    \/ \E pk \in 1..MaxApprovedId : delete_approved_job(pk)
    \/ clear_all_discovered_jobs
    \/ archive_all_applied_jobs
    \/ Tick

ReapproveSpec == ScanInit /\ [][ReapproveNext]_vars

\* Two requests to mark a job as applied, served by two threads, while the
\* job is discovered and approved and the clock moves on.  Each handler serves
\* one request; other writers wait for the write lock.
ApplyNext ==
    \/ /\ db_writer = NoWriter
       /\ \/ insert_stub(101, <<"u1", "l1", "k1">>)
          \/ approve_job_select(101, "r1")
          \/ approve_job_insert
    \/ Tick
    \/ \E h \in Handlers, pk \in 1..MaxApprovedId : ApplyCall(h, pk)
    \/ \E h \in Handlers : ApplyExecute(h)
    \/ \E h \in Handlers : ApplyLocked(h)
    \/ \E h \in Handlers : ApplyCommit(h)

ApplySpec == ScanInit /\ [][ApplyNext]_vars

Init == ScanFaultInit

Next == ScanNext \/ StoreNext \/ EvalNext \/ ExclusionNext \/ UrlNext \/ PromptNext \/ GeminiNext \/ WaitNext
        \/ DetailsNext \/ PipelineNext \/ ControlNext \/ ApplyNext

\* The whole program.
Spec == Init /\ [][Next]_vars

ScanFaultSpec == ScanFaultInit /\ [][ScanNext]_vars

\* The fallible scan controller under fair scheduling.
\* Scheduling: the interpreter keeps switching between runnable threads, so a
\* thread that can take its next statement eventually takes it.  Nothing
\* obliges a request handler to make another call.
ScanFairSpec ==
    /\ ScanFaultInit
    /\ [][ScanNext]_vars
    /\ \A t \in Tids : WF_vars(WorkerNext(t))
    /\ \A c \in Callers : WF_vars(CallerBody(c))


\* ------------------------------------------------- scan-controller claims --
\* Statements of start_scan between its liveness check and its return.
StartCritical == {"start_clear", "start_init", "start_setflag", "start_create", "start_spawn"}

\* A start_scan or stop_scan call is somewhere between entry and return.
StartStopInProgress ==
    \E c \in Callers : pc[c] \in StartCritical \cup
        {"start_lock", "start_check", "stop_lock", "stop_check", "stop_signal", "stop_setflag"}

\* What get_scan_status returns when it runs with nothing else interleaved.
StatusView == [is_running |-> ScanIsLive, stop_requested |-> scan_stop_signal]

StopSucceeded(c) == pc[c] = "idle" /\ ret[c].op = "stop" /\ ret[c].ok

\* C1: single-flight. At most one scan thread is alive in any reachable
\* state, and at most one caller at a time is past start_scan's liveness
\* check on its way to spawning a thread.
C1_SingleFlight ==
    /\ Cardinality(LiveTasks) <= 1
    /\ \A c, d \in Callers : (pc[c] \in StartCritical /\ pc[d] \in StartCritical) => c = d

\* Two start_scan calls overlap: one has found no live task and is about to
\* spawn, the other is inside start_scan too.
C1_Witness ==
    \E c, d \in Callers : c # d /\ pc[c] = "start_spawn" /\ pc[d] = "start_lock"

\* C2: a start_scan whose check finds the scan thread alive returns
\* (False, "Scan is already running"), and no step of that call (entering,
\* taking the lock, the check) changes the thread handle, any thread, or the
\* in-memory or persisted stop flag.
C2_StartWhileLive ==
    [][\A c \in Callers :
         /\ (pc[c] = "start_check" /\ ScanIsLive /\ pc'[c] # "start_check") =>
               /\ pc'[c] = "idle"
               /\ ret'[c] = [op |-> "start", ok |-> FALSE, msg |-> MsgAlreadyRunning]
               /\ UNCHANGED <<scan_thread, worker, scan_stop_signal, scan_control>>
         /\ (pc'[c] # pc[c] /\ pc'[c] \in {"start_lock", "start_check"}) =>
               UNCHANGED <<scan_thread, worker, scan_stop_signal, scan_control>>]_vars

\* A start was refused while a stop request was pending against the live scan,
\* and the request is still there.
C2_Witness ==
    \E c \in Callers :
        /\ pc[c] = "idle"
        /\ ret[c] = [op |-> "start", ok |-> FALSE, msg |-> MsgAlreadyRunning]
        /\ ScanIsLive /\ scan_stop_signal /\ should_stop_scan

\* C3: a stop_scan whose check finds no live scan thread (none created, or the
\* last one ended) returns (False, "No scan is currently running"), and no
\* step of that call (entering, taking the lock, the check) changes the
\* in-memory or the persisted stop flag.
C3_StopWhileIdle ==
    [][\A c \in Callers :
         /\ (pc[c] = "stop_check" /\ ~ScanIsLive /\ pc'[c] # "stop_check") =>
               /\ pc'[c] = "idle"
               /\ ret'[c] = [op |-> "stop", ok |-> FALSE, msg |-> MsgNotRunning]
               /\ UNCHANGED <<scan_thread, worker, scan_stop_signal, scan_control>>
         /\ (pc'[c] # pc[c] /\ pc'[c] \in {"stop_lock", "stop_check"}) =>
               UNCHANGED <<scan_thread, worker, scan_stop_signal, scan_control>>]_vars

\* A stop was refused after a scan had run and ended.
C3_Witness ==
    \E c \in Callers :
        /\ pc[c] = "idle"
        /\ ret[c] = [op |-> "stop", ok |-> FALSE, msg |-> MsgNotRunning]
        /\ scan_thread # 0 /\ worker[scan_thread] = "dead"

\* C4: after a stop_scan that returned success while the thread it targeted
\* was alive, (a) as long as that thread has not reached its exit path both
\* stop flags are set, and (b) once that thread has ended, with no start or
\* stop call in progress and no newer scan, both stop flags are clear and
\* status reports is_running = False, stop_requested = False.
C4_StopThenExit ==
    \A c \in Callers :
        (StopSucceeded(c) /\ liveAtReturn[c]) =>
            /\ worker[target[c]] \in {"work", "checkpoint", "hung"} =>
                   (scan_stop_signal /\ should_stop_scan)
            /\ (worker[target[c]] = "dead" /\ scan_thread = target[c] /\ ~StartStopInProgress) =>
                   /\ ~scan_stop_signal
                   /\ ~should_stop_scan
                   /\ StatusView = [is_running |-> FALSE, stop_requested |-> FALSE]

\* C5: no wedge in StopRequested. Whenever no scan thread is alive and no
\* start_scan / stop_scan call is in progress, the in-memory and the persisted
\* stop flag are both clear.
C5_NeverWedges ==
    (LiveTasks = {} /\ ~StartStopInProgress) => (~scan_stop_signal /\ ~should_stop_scan)

\* C6: cooperative cancellation. (a) For a scan thread that never hangs in a
\* unit of work, a successful stop_scan against it leads to the thread having
\* ended; (b) a thread stuck in a unit of work is never ended by anyone else.
C6_CooperativeCancel ==
    /\ \A t \in Tids :
         ([](worker[t] # "hung")) =>
            ((\E c \in Callers : StopSucceeded(c) /\ target[c] = t) ~> ~is_alive(t))
    /\ [][\A t \in Tids : worker[t] = "hung" => worker'[t] = "hung"]_vars

\* A stop succeeded against a thread that then saw the signal at a checkpoint
\* and ended.
C6_Witness ==
    \E c \in Callers :
        /\ StopSucceeded(c) /\ liveAtReturn[c]
        /\ target[c] = scan_thread /\ sawSignal
        /\ worker[target[c]] = "dead"

\* C7: at the step that launches a new scan thread both stop flags are clear,
\* and a checkpoint of the current thread only ever sees the signal set if a
\* stop_scan raised it after that thread was created.
C7_FreshStart ==
    [][/\ \A t \in Tids :
            (~is_alive(t) /\ is_alive(t)') => (~scan_stop_signal' /\ ~should_stop_scan')
       /\ sawSignal' => stopRaised']_vars

\* The second scan is at a checkpoint after a stop against the first scan
\* raced with that scan's exit (it returned success only after the first
\* thread had ended).
C7_Witness ==
    \E c \in Callers :
        /\ StopSucceeded(c) /\ target[c] = 1 /\ ~liveAtReturn[c]
        /\ scan_thread = 2 /\ worker[2] = "checkpoint" /\ ~sawSignal

\* C8: a stop_scan call that has found a live scan thread returns, whatever
\* the scan thread does.
C8_StopNeverWaits ==
    \A c \in Callers :
        (pc[c] \in {"stop_signal", "stop_setflag"}) ~> (pc[c] = "idle" /\ ret[c].op = "stop")

\* stop_scan returned success against a thread that is stuck in a unit of work.
C8_Witness ==
    \E c \in Callers : StopSucceeded(c) /\ worker[target[c]] = "hung"

\* ----------------------------------------------------------- store claims --
\* C9: insert_stub is idempotent. After every store step no two
\* discovered_jobs rows share a job_id, and an insert_stub call returns True
\* exactly when no row had that job_id, leaving exactly one such row.
C9_InsertStubIdempotent ==
    [][/\ \A d1, d2 \in discovered' : d1.job_id = d2.job_id => d1 = d2
       /\ \A j \in JobIds, stub \in StubInputs :
            insert_stub(j, stub) =>
               /\ sret'.op = "insert_stub"
               /\ sret'.result = (DiscoveredByJob(j) = {})
               /\ Cardinality(DiscoveredByJob(j)') = 1]_vars

\* An insert_stub for a job id that already had a row has just returned False,
\* and that job id still has one row.
C9_Witness ==
    /\ sret = [op |-> "insert_stub", result |-> FALSE]
    /\ \E j \in JobIds : Cardinality(DiscoveredByJob(j)) = 1

\* C10: approve_job is idempotent. After every store step no two
\* approved_jobs rows reference the same discovered row; an approve_job whose
\* lookup finds no discovered row returns False and writes nothing; one whose
\* lookup finds the row goes on to its INSERT OR IGNORE, which returns True and
\* leaves exactly one approved_jobs row for that discovered row.
C10_ApproveIdempotent ==
    [][/\ \A a1, a2 \in approved' :
            a1.discovered_job_id = a2.discovered_job_id => a1 = a2
       /\ \A j \in JobIds, reason \in Reasons :
            approve_job_select(j, reason) =>
               IF DiscoveredByJob(j) = {}
               THEN /\ sret' = [op |-> "approve_job", result |-> FALSE]
                    /\ approve_sel' = <<>>
                    /\ approved' = approved
               ELSE /\ approve_sel' # <<>>
                    /\ approve_sel'[1].discovered_job_id \in {d.id : d \in DiscoveredByJob(j)}
       /\ approve_job_insert =>
               /\ sret' = [op |-> "approve_job", result |-> TRUE]
               /\ LET did == approve_sel[1].discovered_job_id
                  IN  Cardinality({a \in approved' : a.discovered_job_id = did}) = 1]_vars

\* approve_job has just returned True for a job whose only approved_jobs row
\* had been created, and marked applied, before that call.
C10_Witness ==
    /\ sret = [op |-> "approve_job", result |-> TRUE]
    /\ next_aid = 2
    /\ \E a \in approved : a.id = 1 /\ a.date_applied # Unset

\* C11: mark_job_as_applied sets date_applied exactly once.  On a row that
\* exists with date_applied unset it stores the current time in that row only
\* and returns True; on an applied or a missing row it returns False and
\* leaves approved_jobs as it was; and no store call, at any later time, ever
\* changes a date_applied that is set, as long as the row exists.
C11_AppliedOnce ==
    [][/\ \A pk \in 1..MaxApprovedId :
            mark_job_as_applied(pk) =>
               IF \E a \in approved : a.id = pk /\ a.date_applied = Unset
               THEN /\ sret' = [op |-> "mark_job_as_applied", result |-> TRUE]
                    /\ \A a \in approved :
                          IF a.id = pk
                          THEN [a EXCEPT !.date_applied = <<now>>] \in approved'
                          ELSE a \in approved'
                    /\ Cardinality(approved') = Cardinality(approved)
               ELSE /\ sret' = [op |-> "mark_job_as_applied", result |-> FALSE]
                    /\ approved' = approved
       /\ \A a \in approved, b \in approved' :
            (a.id = b.id /\ a.date_applied # Unset) => b.date_applied = a.date_applied]_vars

\* A row applied at time 0 has just been marked applied again at time 1: the
\* call returned False and the row still carries time 0.
C11_Witness ==
    /\ now = 1
    /\ sret = [op |-> "mark_job_as_applied", result |-> FALSE]
    /\ \E a \in approved : a.date_applied = <<0>>

\* C12: lifecycle transitions are strictly forward.  Across every store step,
\* failing ones included, a discovered_jobs row that is analyzed and still
\* exists is still analyzed, and an approved_jobs row that is applied and
\* still exists is still applied.
C12_ForwardOnly ==
    [][/\ \A d \in discovered, e \in discovered' :
            (d.id = e.id /\ d.analyzed) => e.analyzed
       /\ \A a \in approved, b \in approved' :
            (a.id = b.id /\ a.date_applied # Unset) => b.date_applied # Unset]_vars

\* update_details has just rewritten the details of a row that was already
\* analyzed, while an applied row has been archived.
C12_Witness ==
    /\ sret.op = "update_details"
    /\ serr = "none"
    /\ \E d \in discovered : d.analyzed /\ d.title = "t1"
    /\ \E a \in approved : a.date_applied # Unset /\ a.is_archived

\* C13: a clear_all_discovered_jobs that does not fail leaves no
\* discovered_jobs row and no approved_jobs row, and returns the number of
\* discovered_jobs rows there were before it.
C13_ClearAllDiscovered ==
    [][clear_all_discovered_jobs =>
          /\ discovered' = {}
          /\ approved' = {}
          /\ sret' = [op |-> "clear_all_discovered_jobs",
                      result |-> Cardinality(discovered)]]_vars

\* A clear has returned 1 after two approvals had been recorded: the approved
\* rows it removed did not enter the count.
C13_Witness ==
    /\ sret = [op |-> "clear_all_discovered_jobs", result |-> 1]
    /\ next_aid = 3
    /\ discovered = {} /\ approved = {}

\* C14: archive_all_applied_jobs sets is_archived on exactly the rows that are
\* applied and not archived, changes no other row, creates and deletes none,
\* and returns the number of rows it changed; run directly after itself it
\* returns 0.
C14_ArchiveAllApplied ==
    [][archive_all_applied_jobs =>
          /\ \A a \in approved :
                IF a.date_applied # Unset /\ ~a.is_archived
                THEN [a EXCEPT !.is_archived = TRUE] \in approved'
                ELSE a \in approved'
          /\ Cardinality(approved') = Cardinality(approved)
          /\ sret'.op = "archive_all_applied_jobs"
          /\ sret'.result = Cardinality(approved \ approved')
          /\ sret.op = "archive_all_applied_jobs" => sret'.result = 0]_vars

\* An archive call has returned 1 while an un-applied row stayed un-archived.
C14_Witness ==
    /\ sret = [op |-> "archive_all_applied_jobs", result |-> 1]
    /\ \E a \in approved : a.date_applied # Unset /\ a.is_archived
    /\ \E a \in approved : a.date_applied = Unset /\ ~a.is_archived

\* C15: every store call is atomic.  A step in which conn.execute or
\* conn.commit raised leaves both tables and both id sequences as they were;
\* and clear_all_discovered_jobs either empties both tables or changes
\* neither, also when its second DELETE raises after the first has run.
C15_Atomic ==
    [][/\ serr' # "none" => Db' = Db
       /\ clear_all_discovered_jobs =>
             \/ discovered' = {} /\ approved' = {}
             \/ discovered' = discovered /\ approved' = approved]_vars

\* clear_all_discovered_jobs has failed with rows in both tables, and the
\* rows of both tables are there.
C15_Witness ==
    /\ sret.op = "clear_all_discovered_jobs"
    /\ serr = "caught"
    /\ discovered # {}
    /\ approved # {}

\* C16: a persistence failure inside insert_stub, approve_job,
\* mark_job_as_applied, delete_approved_job or clear_all_discovered_jobs is
\* never reported with the value the call returns when it had nothing to do
\* (False, or 0 for clear_all_discovered_jobs).
C16_FailureDistinguishable ==
    (/\ sret.op \in {"insert_stub", "approve_job", "mark_job_as_applied",
                     "delete_approved_job", "clear_all_discovered_jobs"}
     /\ serr # "none")
        => sret.result # (IF sret.op = "clear_all_discovered_jobs" THEN 0 ELSE FALSE)

\* C17: an analyze_job call whose selected provider's key is absent, empty or
\* that provider's placeholder fails with the key-not-configured ValueError
\* and sends no request to any provider, for OpenAI and for Gemini.
C17_KeyCheckedFirst ==
    (last.kind = "analyze_job") =>
        LET cfg == last.user_config
            name == IF cfg.ai_provider = <<>> THEN OpenAiName ELSE cfg.ai_provider[1]
            same(a, b) == /\ Len(a) = Len(b)
                          /\ \A i \in 1..Len(a) : lower_char(a[i]) = lower_char(b[i])
        IN  /\ (same(name, OpenAiName)
                  /\ cfg.openai_api_key \in {NULL, "", OpenAiPlaceholder}) =>
                  /\ last.out = [kind |-> "key_not_configured", provider |-> "openai"]
                  /\ last.sent = <<>>
            /\ (same(name, GeminiName)
                  /\ cfg.google_api_key \in {NULL, "", GooglePlaceholder}) =>
                  /\ last.out = [kind |-> "key_not_configured", provider |-> "gemini"]
                  /\ last.sent = <<>>

\* Gemini was selected by an upper-case name with the placeholder Google key
\* and a usable OpenAI key: the call failed and nothing was sent.
C17_Witness ==
    /\ last.kind = "analyze_job"
    /\ last.user_config = [ai_provider |-> <<<<"G", "E", "M", "I", "N", "I">>>>,
                           openai_api_key |-> "key",
                           google_api_key |-> GooglePlaceholder]
    /\ last.out.kind = "key_not_configured"
    /\ calls = <<>>

\* C18: provider dispatch.  When the configured ai_provider equals "openai"
\* ignoring case, analyze_job sends requests to the OpenAI provider only (one,
\* if the key is usable); when it equals "gemini" ignoring case, to the Gemini
\* provider only; for any other string it raises the invalid-provider
\* ValueError, which carries the configured value (in lower case), and sends
\* nothing.
C18_ProviderDispatch ==
    (last.kind = "analyze_job" /\ last.user_config.ai_provider # <<>>) =>
        LET cfg == last.user_config
            name == cfg.ai_provider[1]
            same(a, b) == /\ Len(a) = Len(b)
                          /\ \A i \in 1..Len(a) : lower_char(a[i]) = lower_char(b[i])
            to(p) == \A n \in 1..Len(last.sent) : last.sent[n].provider = p
        IN  IF same(name, OpenAiName)
            THEN /\ to("openai")
                 /\ last.out.kind # "invalid_provider"
                 /\ cfg.openai_api_key = "key" => Len(last.sent) = 1
            ELSE IF same(name, GeminiName)
            THEN /\ to("gemini")
                 /\ last.out.kind # "invalid_provider"
                 /\ cfg.google_api_key = "key" => Len(last.sent) = 1
            ELSE /\ last.out.kind = "invalid_provider"
                 /\ same(last.out.value, name)
                 /\ last.sent = <<>>

\* "OpenAI" in mixed case selected the OpenAI provider, which answered.
C18_Witness ==
    /\ last.kind = "analyze_job"
    /\ last.user_config.ai_provider = <<<<"O", "p", "e", "n", "A", "I">>>>
    /\ Len(last.sent) = 1
    /\ last.sent[1].provider = "openai"
    /\ last.out.kind = "verdict"

\* C19: batch_analyse_jobs works through the descriptions in input order, one
\* at a time.  The n-th request sent is for the n-th description; a returned
\* list has the input's length and its i-th entry is the verdict for the i-th
\* description; when analyze_job raises on description k the batch ends with
\* that exception, with k - 1 verdicts collected and none returned, and no
\* request has been sent for any description after k.
C19_BatchInOrder ==
    /\ Len(calls) <= Len(job_descriptions)
    /\ \A n \in 1..Len(calls) :
          calls[n].prompt = prompt_eligibility(job_descriptions[n])
    /\ bret.kind = "list" =>
          /\ Len(bret.value) = Len(job_descriptions)
          /\ \A i \in 1..Len(bret.value) :
                /\ bret.value[i].kind = "verdict"
                /\ bret.value[i].prompt = prompt_eligibility(job_descriptions[i])
    /\ bret.kind = "raised" =>
          /\ bpc = "idle"
          /\ bret.error.kind # "verdict"
          /\ Len(done) = bret.at - 1
          /\ Len(calls) <= bret.at
    /\ bpc = "loop" => Len(calls) = Len(done)

\* The provider failed on the first of two descriptions: the batch raised,
\* and only that one request was ever sent.
C19_Witness ==
    /\ Len(job_descriptions) = 2
    /\ bret.kind = "raised"
    /\ bret.at = 1
    /\ bret.error.kind = "provider_error"
    /\ Len(calls) = 1

\* C20: contains_exclusions is True exactly when the keyword list is given
\* and not empty and some keyword occurs in the title, compared ignoring case,
\* with no word character directly before or after the occurrence.
\* "Senior Backend Engineer" with ["Senior"] is excluded; "Senior Project"
\* with [] is not.
C20_WholeWordExclusion ==
    (excl.kind = "contains_exclusions") =>
        LET title == excl.title
            given == excl.exclusion_keywords # <<>>
            words == IF given THEN excl.exclusion_keywords[1] ELSE <<>>
            whole(word) ==
                \E i \in 1..(Len(title) + 1) :
                    LET j == i + Len(word) - 1
                    IN  /\ j <= Len(title)
                        /\ lower(SubSeq(title, i, j)) = lower(word)
                        /\ i = 1 \/ ~IsWordChar(title[i - 1])
                        /\ j = Len(title) \/ ~IsWordChar(title[j + 1])
        IN  /\ excl.result = (\E n \in 1..Len(words) : whole(words[n]))
            /\ (title = SeniorBackendEngineer /\ excl.exclusion_keywords = <<<<Senior>>>>)
                  => excl.result = TRUE
            /\ (title = SeniorProject /\ excl.exclusion_keywords = <<<<>>>>)
                  => excl.result = FALSE

\* The keywords "a" and "Ab" were looked for in the title "Ab ": "a" occurs
\* only inside a word, "Ab" occurs as a whole word.
C20_Witness ==
    /\ excl.kind = "contains_exclusions"
    /\ excl.title = <<"A", "b", " ">>
    /\ excl.exclusion_keywords = <<<<<<"a">>, <<"A", "b">>>>>>
    /\ excl.result = TRUE

\* ------------------------------------------------------ extraction claims --
\* The digit run url[p..m] follows "/jobs/view/" at position i and an optional
\* slug that ends in "-" and holds no "/" or "?".
IdShape(url, i, p, m) ==
    /\ LiteralAt(url, i)
    /\ \/ p = i + Len(View)
       \/ /\ p > i + Len(View)
          /\ url[p - 1] = "-"
          /\ \A q \in (i + Len(View))..(p - 1) : url[q] \notin {"/", "?"}
    /\ p <= m /\ m <= Len(url)
    /\ \A k \in p..m : url[k] \in Digits

\* The digits ending at position m are followed by "/", "?" or the end of url.
TerminatedAfterStrict(url, m) ==
    \/ m = Len(url)
    \/ m < Len(url) /\ url[m + 1] \in {"/", "?"}

\* The places of url that hold an id whose digits are followed by "/", "?" or
\* the end of the input.
StrictIds(url) ==
    {x \in (1..Len(url)) \X (1..Len(url)) \X (1..Len(url)) :
        IdShape(url, x[1], x[2], x[3]) /\ TerminatedAfterStrict(url, x[3])}

\* The same, where the digits may also be followed by a newline that ends the
\* input.
LenientIds(url) ==
    {x \in (1..Len(url)) \X (1..Len(url)) \X (1..Len(url)) :
        IdShape(url, x[1], x[2], x[3]) /\ TerminatedAfter(url, x[3])}

\* The result is the id held at the leftmost place of ids, not found if none.
ResultIs(url, result, ids) ==
    IF ids = {} THEN result = NotFound
    ELSE /\ result.found
         /\ \E x \in ids :
                /\ \A y \in ids : x[1] <= y[1]
                /\ result.id = int(SubSeq(url, x[2], x[3]))

C22_SanitizedForBoth ==
    sent.built =>
        /\ \A k \in 1..Len(sent.openai) : sent.openai[k] \notin NonAscii
        /\ \A k \in 1..Len(sent.gemini) : sent.gemini[k] \notin NonAscii
        /\ sanitize_text(sanitize_text(sent.job_description))
               = sanitize_text(sent.job_description)

\* The resume prompt_eligibility uses: the argument if given, else the
\* configured one; <<>> if neither.
ResumeUsed ==
    IF Truthy(sent.resume) THEN sent.resume
    ELSE IF Truthy(sent.user_config.resume) THEN sent.user_config.resume
    ELSE <<>>

CriteriaBlock ==
    IF sent.user_config.prompts = <<>> THEN <<>>
    ELSE CriteriaHeader \o sent.user_config.prompts[1]

ResumeBlock ==
    IF ResumeUsed = <<>> THEN <<>>
    ELSE ResumeHeader \o sanitize_text(strip(ResumeUsed[1]))

DescriptionBlock == DescriptionHeader \o sanitize_text(strip(sent.job_description))

\* C28 (as stated): the prompt is the preamble, the criteria block if
\* configured, the resume block if a resume is available, the description
\* block and the footer, in this order.
C28_ResumeBeforeDescription ==
    sent.built =>
        sent.prompt = Preamble \o CriteriaBlock \o ResumeBlock \o DescriptionBlock \o Footer

\* C28 (amended): the prompt is the preamble, the criteria block if
\* configured, the description block, the resume block if a resume is
\* available (the argument if given, else the configured one) and the footer,
\* in this order; the prompt is a function of the three inputs.
C28_PromptOrder ==
    sent.built =>
        sent.prompt = Preamble \o CriteriaBlock \o DescriptionBlock \o ResumeBlock \o Footer

\* A prompt with all five blocks, built from a configured resume because the
\* argument was empty.
C28_Witness ==
    /\ sent.built
    /\ sent.user_config.prompts = <<<<"a">>>>
    /\ sent.resume = <<<<>>>>
    /\ Truthy(sent.user_config.resume)
    /\ Len(sent.job_description) > 0
    /\ sent.prompt[Len(sent.prompt) - 1] = "a"

\* ------------------------------------------------- Gemini response claims --
\* The fences the claim names: three U+0060 (with or without "json") and a
\* newline in front, a newline and three U+0060 behind.
ClaimLeads == {Fence \o <<"\n">>, Fence \o <<"j", "s", "o", "n", "\n">>}

ClaimTrail == <<"\n">> \o Fence

\* Everything a fence or the surrounding whitespace can consist of.
FenceChars == {"U+0060", "j", "s", "o", "n", "\n", " "}

\* C23: a response whose JSON body is wrapped in a leading fence (three
\* U+0060, optionally "json", then a newline) and a trailing fence (a
\* newline, then three U+0060) parses
\* to the verdict the body alone parses to; and whenever what is left after
\* fence-stripping is not valid JSON the call ends in a parse error, not in a
\* verdict: a verdict is returned only for a text that holds exactly one JSON
\* document and otherwise nothing but fence characters and whitespace.
C23_FenceStripped ==
    gem.called =>
        /\ \A lead \in ClaimLeads, body \in BodyInputs :
               (gem.text = lead \o body \o ClaimTrail /\ json_loads(body).kind = "verdict")
                   => gem.result = json_loads(body)
        /\ json_loads(FENCE_RE_sub(strip(gem.text))) = ParseError => gem.result = ParseError
        /\ gem.result.kind = "verdict" =>
               \E k \in 1..Len(gem.text) :
                   /\ gem.text[k] = gem.result.value
                   /\ \A n \in (1..Len(gem.text)) \ {k} : gem.text[n] \in FenceChars

\* A document in a "json" fence has been parsed to its verdict.
C23_Witness ==
    /\ gem.called
    /\ gem.text = Fence \o <<"j", "s", "o", "n", "\n", "{\"eligible\": true, ...}", "\n">> \o Fence
    /\ gem.result = [kind |-> "verdict", value |-> "{\"eligible\": true, ...}"]

\* ------------------------------------------------------------ wait claims --
\* C24: wait_for_scan_completion returns True at once when no scan task is
\* live; otherwise it returns True exactly when the task it waited for has
\* exited by the time it returns, and False if that task is still alive.
C24_WaitReportsJoinedTask ==
    wret # NoRet =>
        /\ wret.op = "wait"
        /\ wret.result = wret.exited

\* ---------------------------------------------- persisted-control claims --
\* The scan thread is somewhere in the finally block of scan_worker, or past
\* it and about to end.
InExitPath == \E t \in Tids : worker[t] \in {"fin_signal", "fin_db", "exiting"}

\* C25: whenever no start_scan or stop_scan call is in progress and the scan
\* thread is not in its exit path, the persisted stop flag equals the
\* in-memory stop signal.
C25_StopFlagsAgree ==
    (~StartStopInProgress /\ ~InExitPath) => should_stop_scan = scan_stop_signal

\* A start_scan call has returned success and nothing has been called since.
StartSucceeded == \E c \in Callers : pc[c] = "idle" /\ ret[c] = [op |-> "start", ok |-> TRUE, msg |-> MsgStarted]

\* C26: after a successful start_scan and while the scan thread is alive the
\* persisted scan_active flag is true, and once the thread has ended and no
\* call is in progress it is false.
C26_ActiveFlagFollowsTask ==
    /\ (StartSucceeded /\ ScanIsLive) => is_scan_active
    /\ (~StartStopInProgress /\ LiveTasks = {}) => ~is_scan_active

\* ---------------------------------------------------------- detail claims --
\* C29: row_missing_details(id) is true exactly when discovered_jobs has no
\* row for id or that row's title is unset.  update_details on an id without
\* a row changes no row and raises nothing; on an existing row it sets title
\* and description to the values given, whatever they were, and leaves the
\* row's analyzed flag, url, location and keyword, and every other row, as
\* they were.
C29_DetailsFrame ==
    [][/\ \A j \in JobIds :
            row_missing_details_call(j) =>
               /\ serr' = "none"
               /\ sret'.result =
                     (\/ ~\E d \in discovered : d.job_id = j
                      \/ \E d \in discovered : d.job_id = j /\ d.title = NULL)
       /\ \A j \in JobIds, det \in AllDetailInputs :
            update_details(j, det) =>
               /\ serr' = "none"
               /\ approved' = approved
               /\ (~\E d \in discovered : d.job_id = j) => discovered' = discovered
               /\ \A d \in discovered :
                     IF d.job_id = j
                     THEN \E e \in discovered' :
                             /\ e.id = d.id /\ e.job_id = j
                             /\ e.title = det[1] /\ e.description = det[2]
                             /\ e.analyzed = d.analyzed /\ e.url = d.url
                             /\ e.location = d.location /\ e.keyword = d.keyword
                             /\ e.date_discovered = d.date_discovered
                     ELSE d \in discovered'
               /\ Cardinality(discovered') = Cardinality(discovered)]_vars

\* update_details has put a new title, and no description, on a row that was
\* already analyzed and had been discovered with the second stub.
C29_Witness ==
    /\ sret.op = "update_details"
    /\ \E d \in discovered :
          /\ d.analyzed
          /\ d.title = "t2" /\ d.description = NULL
          /\ d.url = "u2"

\* C30: every approved_jobs row references a discovered_jobs row that
\* exists, whatever the interleaving of approve_job's two statements with
\* clear_all_discovered_jobs.
C30_ApprovedRefersToDiscovered ==
    \A a \in approved : \E d \in discovered : d.id = a.discovered_job_id

\* -------------------------------------------------------- pipeline claims --
\* C27: the pipeline evaluates a job only if the job has a description and
\* its analyzed flag is unset; once an evaluation has completed and the
\* pipeline has moved on, the job is marked analyzed whatever the verdict, so
\* no job is evaluated twice; and an approved_jobs row exists only for a job
\* whose verdict was eligible and whose title matches no exclusion keyword.
C27_PipelineGating ==
    /\ cur.picked => (cur.had_description /\ ~cur.was_analyzed)
    /\ \A j \in JobIds :
          /\ evaluated[j] <= 1
          /\ (evaluated[j] > 0 /\ ppc # "mark") =>
                 \A d \in DiscoveredByJob(j) : d.analyzed
    /\ \A a \in approved :
          \E d \in discovered :
             /\ d.id = a.discovered_job_id
             /\ verdicts[d.job_id] = "eligible"
             /\ ~contains_exclusions(TitleOf(d.title), PipelineExclusions)

\* Both jobs have been evaluated and marked analyzed: one was eligible, not
\* excluded and approved; the other was eligible but excluded by its title.
C27_Witness ==
    /\ ppc = "idle"
    /\ \A j \in JobIds : evaluated[j] = 1 /\ verdicts[j] = "eligible"
    /\ \A d \in discovered : d.analyzed
    /\ Cardinality(discovered) = 2
    /\ Cardinality(approved) = 1
    /\ \E d \in discovered : d.title = "t1"

\* --------------------------------------------------------- archive claims --
\* C31: after every store step each archived approved_jobs row has an
\* application timestamp, and a row that was archived before the step is
\* still archived after it unless the step deleted it.
C31_ArchivedStaysArchived ==
    [][/\ \A a \in approved' : a.is_archived => a.date_applied # Unset
       /\ \A a \in approved : a.is_archived =>
             \A b \in approved' : b.id = a.id => b.is_archived]_vars

\* An approve_job of a job whose row is applied and archived has returned
\* True and the row is still archived.
C31_Witness ==
    /\ sret = [op |-> "approve_job", result |-> TRUE]
    /\ Cardinality(approved) = 1
    /\ \A a \in approved : a.is_archived /\ a.date_applied # Unset

\* -------------------------------------------------- scan-control claims ---
\* C32: a set_stop_scan_flag call leaves the persisted scan_active flag as
\* it was, and a set_scan_active call leaves the persisted stop flag as it
\* was.
C32_FlagsIndependent ==
    [][/\ \A stop \in BOOLEAN :
            set_stop_scan_flag_call(stop) => is_scan_active' = is_scan_active
       /\ \A active \in BOOLEAN :
            set_scan_active_call(active) => should_stop_scan' = should_stop_scan]_vars

\* C33: a stop_scan that returns ok = FALSE, whether it found no live scan or
\* could not write the persisted flag, does not leave the in-memory stop
\* signal raised unless it was already raised when the call looked at it.
C33_FailedStopKeepsSignal ==
    [][\A c \in Callers :
          (/\ pc[c] \in {"stop_check", "stop_setflag"}
           /\ pc'[c] = "idle"
           /\ ~ret'[c].ok)
          => (scan_stop_signal' => signalAtEntry'[c])]_vars

\* C34: a start_scan that fails after its 'already running' check (the
\* pipeline import, init_db or the persisted-flag write raises) returns
\* (False, "Failed to start scan"), creates and starts no thread, leaves no
\* scan alive for get_scan_status to report, and releases the lock so that a
\* later start_scan is not blocked.
C34_FailedStartLeavesNothing ==
    [][\A c \in Callers :
          (/\ pc[c] \in {"start_init", "start_setflag"}
           /\ pc'[c] = "idle"
           /\ ~ret'[c].ok)
          => /\ ret'[c] = [op |-> "start", ok |-> FALSE, msg |-> MsgStartFailed]
             /\ worker' = worker
             /\ scan_thread' = scan_thread
             /\ ~ScanIsLive'
             /\ scan_lock' = NoOwner]_vars

\* A start_scan failed that way, and a later start_scan by another caller
\* succeeded: its scan is running.
C34_Witness ==
    /\ ret["c1"] = [op |-> "start", ok |-> FALSE, msg |-> MsgStartFailed]
    /\ ret["c2"] = [op |-> "start", ok |-> TRUE, msg |-> MsgStarted]
    /\ pc["c1"] = "idle"
    /\ scan_thread = 1
    /\ is_alive(1)

\* C35: when two mark_job_as_applied calls name the same approved_jobs row,
\* both arrived while that row was un-applied, and both have returned, exactly
\* one of them returned True, and the row's date_applied is the timestamp that
\* call's UPDATE wrote.
C35_BothReturned ==
    /\ \A h \in Handlers : aret[h] # NoRet /\ acall[h].open
    /\ acall["h1"].pk = acall["h2"].pk

C35_OneApplyWins ==
    C35_BothReturned =>
        /\ aret["h1"].result # aret["h2"].result
        /\ \A h \in Handlers :
              aret[h].result =>
                 \A a \in approved :
                    a.id = acall[h].pk => a.date_applied = acall[h].stamp

\* Both calls ran their UPDATE, at different times; the second one to run
\* matched no row and returned False.
C35_Witness ==
    /\ C35_BothReturned
    /\ acall["h1"].stamp = <<0>>
    /\ acall["h2"].stamp = <<1>>
    /\ aret["h1"].result
    /\ ~aret["h2"].result

\* C36: an approve_job whose INSERT finds the job already approved leaves that
\* job's approved_jobs row as it was (id, reason, date_approved, date_applied
\* and is_archived) and adds no second row for it, whatever reason it carries.
C36_ReapproveKeepsRow ==
    [][(/\ approve_sel # <<>>
        /\ approve_sel' = <<>>
        /\ ApprovedFor(approve_sel[1].discovered_job_id) # {})
       => {a \in approved' : a.discovered_job_id = approve_sel[1].discovered_job_id}
             = ApprovedFor(approve_sel[1].discovered_job_id)]_vars

\* The job was approved with "r1" at time 0, applied and archived; the last
\* store call is an approve_job at time 1, which carried "r2" and returned True.
C36_Witness ==
    /\ sret = [op |-> "approve_job", result |-> TRUE]
    /\ now = 1
    /\ approved = {[id |-> 1, discovered_job_id |-> 1, reason |-> "r1",
                    date_approved |-> 0, date_applied |-> <<0>>, is_archived |-> TRUE]}

\* C37: an insert_stub for a job id that already has a discovered_jobs row
\* returns False and leaves that row as it was (id, url, location, keyword,
\* title, description, analyzed, date_discovered), whatever url, location and
\* keyword the call carries; it adds no second row for the job.
C37_StubKeepsRow ==
    [][\A j \in JobIds, stub \in StubInputs :
          (insert_stub(j, stub) /\ DiscoveredByJob(j) # {})
          => /\ {d \in discovered' : d.job_id = j} = DiscoveredByJob(j)
             /\ sret' = [op |-> "insert_stub", result |-> FALSE]]_vars

\* Job 101 was discovered at time 0 under ("u1", "l1", "k1"), enriched and
\* analyzed; the last store call is an insert_stub at time 1 that returned
\* False, which carried ("u2", "l2", "k2").
C37_Witness ==
    /\ sret = [op |-> "insert_stub", result |-> FALSE]
    /\ now = 1
    /\ discovered = {[id |-> 1, job_id |-> 101, url |-> "u1", location |-> "l1",
                      keyword |-> "k1", title |-> "t1", description |-> "d1",
                      analyzed |-> TRUE, date_discovered |-> 0]}

====
